---- MODULE Spec2Model ----
(***************************************************************************)
(* A model of soniox-compare: the session handler compare_websocket of     *)
(* src/main.py and the seven provider adapters of src/providers/*.         *)
(*                                                                         *)
(* The module holds eleven specifications over the same variables:        *)
(*   Spec          one client session driven through compare_websocket,    *)
(*                 with one provider or with a provider beside Soniox;     *)
(*   SpecStream    a session of one provider whose vendor sends several    *)
(*                 events;                                                 *)
(*   SpecOverflow  a session whose client sends more audio frames than an  *)
(*                 inbound queue holds while the vendor transport stalls;  *)
(*   SpecAdapter   one adapter whose public operations are called in any   *)
(*                 order, with its sender/receiver loops running;          *)
(*   SpecValidate  validate_capabilities applied to every matrix/params;   *)
(*   SpecParams    the loading of two providers in either order;           *)
(*   SpecDelta     SpecStream with OpenAI's transcription delta events;    *)
(*   SpecIdle      SpecStream with the idle iterations of a forwarding     *)
(*                 task;                                                   *)
(*   SpecBlock     a session whose client sends enough audio to fill an    *)
(*                 inbound queue, with END before and after it, while the  *)
(*                 sender loop runs;                                       *)
(*   SpecFair      SpecStream with the forwarding task scheduled fairly;   *)
(*   SpecForward   a session of two providers with each write of a         *)
(*                 forwarding task to the client as a call and a return,   *)
(*                 in which such a write may fail.                         *)
(***************************************************************************)
EXTENDS Integers, Sequences, FiniteSets, TLC

VARIABLES
    prov,              \* instance -> adapter object (fields of the Provider classes)
    pc,                \* position of compare_websocket
    providers,         \* the `providers` query parameter (list of names)
    provider_params,   \* the session's ProviderParams (main.py:110)
    idx,               \* index of the for loop compare_websocket is in
    active_providers,  \* ordered dict name -> instance, as a list of <<name, inst>>
    receive_tasks,     \* name -> state of its forward_to_client task
    batch,             \* name -> messages receive() returned, not yet written
    frame,             \* actual_payload of the frame being fanned out
    frames,            \* the frames websocket.receive() has returned so far
    clientOpen,        \* the client's side of the websocket is still there
    clientLog,         \* name -> messages the client received with that provider tag
    escaped,           \* where an exception left compare_websocket's try block:
                       \* "no", "load", "fanout" or "cleanup"
    calls,             \* instance -> calls the session handler made on the adapter
    h,                 \* SpecAdapter: the last operation called on the adapter, what
                       \* it raised, the adapter before and after the call
    vin,               \* validate_capabilities harness: the input
    vout               \* validate_capabilities harness: the result

vars == <<prov, pc, providers, provider_params, idx, active_providers,
          receive_tasks, batch, frame, frames, clientOpen, clientLog,
          escaped, calls, h, vin, vout>>

sessVars == <<pc, providers, provider_params, idx, active_providers,
              receive_tasks, batch, frame, frames, clientOpen, clientLog,
              escaped, calls>>

valVars == <<vin, vout>>

-----------------------------------------------------------------------------
(* Bounds of the model.                                                    *)

\* frames the client sends in one session of Spec
MaxFrames == 2
\* vendor events in one run of SpecAdapter or SpecStream: messages the vendor
\* sends, writes to the vendor that fail
MaxVendor == 2
\* vendor events in one session of Spec
MaxSessionVendor == 1
\* audio frames the client sends in one session of SpecForward
MaxForwardFrames == 1
\* public operations the harness of SpecAdapter calls on the adapter
MaxCalls == 3

(* Program constants.                                                      *)

\* asyncio.Queue(maxsize=100): capacity of client_queue
QUEUE_MAXSIZE == 100

-----------------------------------------------------------------------------
(* Provider names, exceptions, messages.                                   *)

Kinds == {"soniox", "openai", "deepgram", "assembly", "google", "azure",
          "speechmatics"}

\* "bogus" stands for any name importlib cannot resolve to a provider module
Names == Kinds \cup {"bogus"}

\* adapter objects: instance k is the one made for providers[k]
Inst == {1, 2}

NoExc == [cls |-> "None", msg |-> ""]

Exc(cls, msg) == [cls |-> cls, msg |-> msg]

ProviderError(msg) == Exc("ProviderError", msg)

\* utils.error_message(provider, message)
error_message(provider, message) ==
    [type |-> "error", provider |-> provider, id |-> 0, text |-> message]

\* a data Message as the adapters build it: {"type": "data", "provider": ..., "parts": ...}
\* id identifies the vendor event the parts were made from
DataMessage(provider, id) ==
    [type |-> "data", provider |-> provider, id |-> id, text |-> ""]

\* the None GoogleProvider puts on its results queue
NoneMessage == [type |-> "none", provider |-> "", id |-> 0, text |-> ""]

-----------------------------------------------------------------------------
(* Capability matrices and validate_capabilities.                          *)

FeatureState == {"SUPPORTED", "UNSUPPORTED", "PARTIAL"}

Features(ow, tw, di, li, ep) ==
    [translation_one_way |-> ow, translation_two_way |-> tw,
     speaker_diarization |-> di, language_identification |-> li,
     endpoint_detection |-> ep]

\* get_available_features() of each provider class, the five validated rows
get_available_features(kind) ==
    CASE kind = "soniox" ->
           Features("SUPPORTED", "SUPPORTED", "SUPPORTED", "SUPPORTED", "SUPPORTED")
      [] kind = "openai" ->
           Features("SUPPORTED", "UNSUPPORTED", "UNSUPPORTED", "UNSUPPORTED", "UNSUPPORTED")
      [] kind = "deepgram" ->
           Features("UNSUPPORTED", "UNSUPPORTED", "SUPPORTED", "UNSUPPORTED", "SUPPORTED")
      [] kind = "assembly" ->
           Features("UNSUPPORTED", "UNSUPPORTED", "UNSUPPORTED", "UNSUPPORTED", "SUPPORTED")
      [] kind = "google" ->
           Features("SUPPORTED", "UNSUPPORTED", "UNSUPPORTED", "UNSUPPORTED", "PARTIAL")
      [] kind = "azure" ->
           Features("SUPPORTED", "UNSUPPORTED", "PARTIAL", "PARTIAL", "SUPPORTED")
      [] kind = "speechmatics" ->
           Features("SUPPORTED", "UNSUPPORTED", "SUPPORTED", "UNSUPPORTED", "PARTIAL")

\* the name each adapter passes to validate_provider_capabilities
DisplayName(kind) ==
    CASE kind = "soniox" -> "Soniox"
      [] kind = "openai" -> "OpenAI"
      [] kind = "deepgram" -> "Deepgram"
      [] kind = "assembly" -> "AssemblyAI"
      [] kind = "google" -> "Google"
      [] kind = "azure" -> "Azure"
      [] kind = "speechmatics" -> "Speechmatics"

\* validate_capabilities with the diarization check moved in front of the
\* two-way translation check
validate_capabilities_reordered(features, params, provider) ==
    IF params.mode = "mt" /\ features.translation_one_way = "UNSUPPORTED"
    THEN ProviderError("Machine translation is not supported by " \o provider \o ".")
    ELSE IF params.enable_speaker_diarization
            /\ features.speaker_diarization = "UNSUPPORTED"
    THEN ProviderError("Speaker diarization not supported by " \o provider \o ".")
    ELSE IF (params.mode = "mt" /\ params.ttype = "two_way")
            /\ features.translation_two_way # "SUPPORTED"
    THEN ProviderError("Two way machine translation is not supported by " \o provider \o ".")
    ELSE IF params.enable_language_identification
            /\ features.language_identification = "UNSUPPORTED"
    THEN ProviderError("Language identification not supported by " \o provider \o ".")
    ELSE IF params.enable_endpoint_detection
            /\ features.endpoint_detection = "UNSUPPORTED"
    THEN ProviderError("Endpoint detection not supported by " \o provider \o ".")
    ELSE NoExc

\* validate_capabilities(features, config, provider): NoExc, or the ProviderError of
\* the first failing check
validate_capabilities(features, params, provider) ==
    IF params.mode = "mt" /\ features.translation_one_way = "UNSUPPORTED"
    THEN ProviderError("Machine translation is not supported by " \o provider \o ".")
    ELSE IF (params.mode = "mt" /\ params.ttype = "two_way")
            /\ features.translation_two_way # "SUPPORTED"
    THEN ProviderError("Two way machine translation is not supported by " \o provider \o ".")
    ELSE IF params.enable_speaker_diarization
            /\ features.speaker_diarization = "UNSUPPORTED"
    THEN ProviderError("Speaker diarization not supported by " \o provider \o ".")
    ELSE IF params.enable_language_identification
            /\ features.language_identification = "UNSUPPORTED"
    THEN ProviderError("Language identification not supported by " \o provider \o ".")
    ELSE IF params.enable_endpoint_detection
            /\ features.endpoint_detection = "UNSUPPORTED"
    THEN ProviderError("Endpoint detection not supported by " \o provider \o ".")
    ELSE NoExc

-----------------------------------------------------------------------------
(* ProviderParams and the adapter objects.                                 *)

\* ProviderParams; translation is None in stt mode (main.py:117): ttype "none",
\* no source languages, no target language.
Params(mode, ttype, di, li, ep, hints, src, tgt) ==
    [mode |-> mode, ttype |-> ttype,
     enable_speaker_diarization |-> di,
     enable_language_identification |-> li,
     enable_endpoint_detection |-> ep,
     language_hints |-> hints,
     source_languages |-> src, target_language |-> tgt]

\* The language tables of src/transcription_languages and src/translation_languages
\* are data outside the model: "en" and "de" stand for codes every table holds,
\* "zz" for a code no table holds.
InMapping(lang) == lang \in {"en", "de"}

\* the vendor code a table maps a language to
VendorCode(lang) == lang \o "-XX"

\* BaseProvider.__init__ and the fields each provider class adds.
\* websocket: the vendor transport (speech_client for Google, recognizer for Azure);
\* sender/receiver: the tasks (_manage_stream_task is Google's sender,
\* _sender_task Azure's); has_queue: the inbound queue exists (Google makes its
\* own in connect()); io: calls made into the vendor's client library;
\* wire: what was written to the vendor; produced: data messages built so far;
\* vendor: vendor events consumed so far.
\* non_final_parts: the length of the list the local variable non_final_parts
\* of OpenaiProvider._recv_loop is bound to; list_from: the data messages with
\* a greater id hold that very list as their "parts"; enqueued: for each such
\* message, <<id, parts>> as they were when it was put on the outbound queue.
\* last_seq_no: the "last_seq_no" of the EndOfStream message Speechmatics'
\* sender loop wrote to the vendor last (0 until it writes one).
NewProvider(kind, params) ==
    [kind |-> kind, params |-> params,
     is_connected |-> FALSE, error |-> NoExc,
     websocket |-> "none",
     client_queue |-> <<>>, has_queue |-> kind # "google",
     host_queue |-> <<>>,
     sender |-> "none", receiver |-> "none",
     stop_event |-> FALSE, end_event |-> FALSE,
     num_sent_chunks |-> 0,
     handoff |-> <<>>, loop_set |-> FALSE, audio_stream |-> "open",
     io |-> 0, wire |-> <<>>, produced |-> 0, vendor |-> 0,
     non_final_parts |-> 0, list_from |-> 0, enqueued |-> {},
     last_seq_no |-> 0]

\* an instance slot no adapter object was made for
NoProvider == NewProvider("none", Params("stt", "none", FALSE, FALSE, FALSE, <<>>, <<>>, ""))

\* the result of an adapter operation: the object afterwards, and what was raised
Ok(a) == [a |-> a, exc |-> NoExc]

Raise(a, e) == [a |-> a, exc |-> e]

\* exceptions of the vendor client libraries
TransportError == Exc("OSError", "transport failure")

QueueFull == Exc("QueueFull", "")

AssertionError == Exc("AssertionError", "")

CancelledError == Exc("CancelledError", "")

\* what the vendor does during connect(): transport: the connection (or client
\* object) is established; init: the session-initialisation message is sent
ConnectOutcomes == [transport : BOOLEAN, init : BOOLEAN]

-----------------------------------------------------------------------------
(* Construction.                                                           *)

\* GoogleProvider._update_transcription_languages: the language hints are
\* replaced by Google's codes
GoogleUpdateTranscriptionLanguages(a) ==
    LET hints == a.params.language_hints IN
    IF Len(hints) = 0
    THEN Raise(a, ProviderError("Google provider does not support auto language detect in streaming mode."))
    ELSE IF \E i \in 1..Len(hints) : ~InMapping(hints[i])
    THEN Raise(a, ProviderError("Google does not support language."))
    ELSE IF Len(hints) > 3
    THEN Raise(a, ProviderError("Google supports up 3 language inputs."))
    ELSE Ok([a EXCEPT !.params.language_hints =
                          [i \in 1..Len(hints) |-> VendorCode(hints[i])]])

\* GoogleProvider._update_translation_language_pair
GoogleUpdateTranslationLanguagePair(a) ==
    LET src == a.params.source_languages
        tgt == a.params.target_language IN
    IF Len(src) = 0
    THEN Raise(a, ProviderError("No source language codes provided."))
    ELSE IF tgt = ""
    THEN Raise(a, ProviderError("No target language codes provided."))
    ELSE IF \E i \in 1..Len(src) : ~InMapping(src[i])
    THEN Raise(a, ProviderError("Source language not supported."))
    ELSE IF ~InMapping(tgt)
    THEN Raise(a, ProviderError("Unsupported language pair."))
    ELSE Ok([a EXCEPT !.params.source_languages =
                          [i \in 1..Len(src) |-> VendorCode(src[i])],
                      !.params.target_language = VendorCode(tgt)])

\* provider_class(provider_config): the constructors. Only GoogleProvider's does
\* more than initialise fields.
Construct(kind, params) ==
    LET a == NewProvider(kind, params) IN
    IF kind = "google"
    THEN IF params.mode = "stt"
         THEN GoogleUpdateTranscriptionLanguages(a)
         ELSE GoogleUpdateTranslationLanguagePair(a)
    ELSE Ok(a)

-----------------------------------------------------------------------------
(* connect().  o \in ConnectOutcomes is what the vendor does.              *)

\* BaseProvider.validate_provider_capabilities
validate_provider_capabilities(a, name) ==
    validate_capabilities(get_available_features(a.kind), a.params, name)

\* the state after connect() succeeded for the websocket adapters
Connected(a) ==
    [a EXCEPT !.is_connected = TRUE, !.sender = "running", !.receiver = "running"]

\* SonioxProvider.connect
SonioxConnect(a, o) ==
    LET v == validate_provider_capabilities(a, "Soniox")
        p == a.params
        opened == [a EXCEPT !.io = @ + 1, !.websocket = "open"]
        hinted == IF p.mode = "mt" /\ p.ttype = "one_way" /\ p.target_language = "en"
                     /\ Len(p.source_languages) > 0 /\ p.source_languages[1] # "*"
                  THEN [opened EXCEPT !.params.language_hints =
                                          Append(@, p.source_languages[1])]
                  ELSE opened
    IN
    IF a.is_connected THEN Ok(a)
    ELSE IF v # NoExc THEN Raise(a, v)
    ELSE IF ~o.transport
    THEN Raise([a EXCEPT !.io = @ + 1], ProviderError(TransportError.msg))
    ELSE IF p.mode = "mt" /\ p.ttype = "one_way" /\ p.target_language = "en"
            /\ Len(p.source_languages) = 0
    THEN Raise(opened, ProviderError(AssertionError.msg))
    ELSE IF ~o.init
    THEN Raise([hinted EXCEPT !.io = @ + 1], ProviderError(TransportError.msg))
    ELSE Ok(Connected([hinted EXCEPT !.io = @ + 1, !.wire = Append(@, "init")]))

\* DeepgramProvider.get_lang_cfg raises
DeepgramLangUnsupported(hints) ==
    \E i \in 1..Len(hints) :
        /\ ~InMapping(hints[i])
        /\ \A j \in 1..(i - 1) : hints[j] = "en"

\* DeepgramProvider.connect: everything is inside the try, the failure is stored
DeepgramConnect(a, o) ==
    LET v == validate_provider_capabilities(a, "Deepgram")
        cleared == [a EXCEPT !.error = NoExc]
        Fail(b, ex) == Raise([b EXCEPT !.error = ex], ProviderError(ex.msg))
    IN
    IF a.is_connected THEN Ok(a)
    \* FeatureState compared with a FeatureStatus object: never equal
    ELSE IF a.params.enable_language_identification
    THEN Fail(cleared, ProviderError("Deepgram only supports language identification in batch, not streaming."))
    ELSE IF v # NoExc THEN Fail(cleared, v)
    ELSE IF DeepgramLangUnsupported(a.params.language_hints)
    THEN Fail(cleared, ProviderError("Language not supported by Deepgram."))
    ELSE IF ~o.transport
    THEN Fail([cleared EXCEPT !.io = @ + 1], TransportError)
    ELSE Ok(Connected([cleared EXCEPT !.io = @ + 1, !.websocket = "open"]))

\* AssemblyProvider.connect
AssemblyConnect(a, o) ==
    LET v == validate_provider_capabilities(a, "AssemblyAI")
        hints == a.params.language_hints
    IN
    IF a.is_connected THEN Ok(a)
    ELSE IF v # NoExc THEN Raise(a, v)
    ELSE IF Len(hints) = 0
    THEN Raise(a, ProviderError("AssemblyAI does not support multilingual mode."))
    ELSE IF hints[1] # "en"
    THEN Raise(a, ProviderError("AssemblyAI does not support this language."))
    ELSE IF ~o.transport
    THEN Raise([a EXCEPT !.io = @ + 1, !.error = TransportError],
               ProviderError("Connection failed: " \o TransportError.msg))
    ELSE Ok(Connected([a EXCEPT !.io = @ + 1, !.websocket = "open"]))

\* SpeechmaticsProvider._determine_language raises
SpeechmaticsLanguageError(p) ==
    IF p.mode = "mt"
    THEN IF Len(p.source_languages) # 1
         THEN ProviderError("Speechmatics supports only one source language for translation.")
         ELSE NoExc
    ELSE IF Len(p.language_hints) = 0
         THEN ProviderError("Speechmatics provider does not support multilingual mode.")
         ELSE IF ~InMapping(p.language_hints[1])
         THEN ProviderError("Speechmatics does not support real-time transcription in this language.")
         ELSE NoExc

\* SpeechmaticsProvider.is_language_pair_supported
is_language_pair_supported(source_langs, target_lang) ==
    /\ Len(source_langs) > 0
    /\ target_lang # ""
    /\ \E i \in 1..Len(source_langs) : InMapping(source_langs[i]) /\ InMapping(target_lang)

\* SpeechmaticsProvider.connect: the socket is opened before the language checks,
\* and no failure is stored
SpeechmaticsConnect(a, o) ==
    LET v == validate_provider_capabilities(a, "Speechmatics")
        p == a.params
        cleared == [a EXCEPT !.error = NoExc]
        opened == [cleared EXCEPT !.io = @ + 1, !.websocket = "open"]
        lang == SpeechmaticsLanguageError(p)
    IN
    IF a.is_connected THEN Ok(a)
    ELSE IF v # NoExc THEN Raise(a, v)
    ELSE IF ~o.transport
    THEN Raise([cleared EXCEPT !.io = @ + 1], ProviderError(TransportError.msg))
    ELSE IF lang # NoExc THEN Raise(opened, ProviderError(lang.msg))
    ELSE IF p.mode = "mt"
            /\ ~is_language_pair_supported(p.source_languages, p.target_language)
    THEN Raise(opened, ProviderError("Unsupported language pair."))
    ELSE IF ~o.init
    THEN Raise([opened EXCEPT !.io = @ + 1], ProviderError(TransportError.msg))
    ELSE Ok(Connected([opened EXCEPT !.io = @ + 1, !.wire = Append(@, "init"),
                                     !.num_sent_chunks = 0]))

\* OpenaiProvider.connect: the REST call and the socket are the transport
OpenaiConnect(a, o) ==
    LET v == validate_provider_capabilities(a, "OpenAI")
        p == a.params
        cleared == [a EXCEPT !.end_event = FALSE]
        Fail(b, ex) == LET e == ProviderError(ex.msg) IN Raise([b EXCEPT !.error = e], e)
    IN
    IF a.is_connected THEN Ok(a)
    ELSE IF v # NoExc THEN Raise(a, v)
    ELSE IF Len(p.language_hints) > 1
    THEN Fail(cleared, ProviderError("OpenAI supports at most one language input."))
    ELSE IF p.mode = "mt" /\ Len(p.source_languages) = 0
    THEN Fail(cleared, ProviderError("Missing translation source language for MT mode."))
    ELSE IF ~o.transport
    THEN Fail([cleared EXCEPT !.io = @ + 1], TransportError)
    ELSE IF ~o.init
    THEN Fail([cleared EXCEPT !.io = @ + 2, !.websocket = "open"], TransportError)
    ELSE Ok(Connected([cleared EXCEPT !.io = @ + 2, !.websocket = "open",
                                      !.wire = Append(@, "init")]))

\* GoogleProvider.connect with _initialize_client_and_configs: the inbound queue
\* is made here, without a maxsize; the stream task is the only loop
GoogleConnect(a, o) ==
    LET v == validate_provider_capabilities(a, "Google")
        cleared == [a EXCEPT !.error = NoExc, !.host_queue = <<>>]
        Fail(b, ex) ==
            Raise([b EXCEPT !.is_connected = FALSE,
                            !.error = ProviderError("Google connection error: " \o ex.msg)],
                  ex)
    IN
    IF a.is_connected THEN Ok(a)
    ELSE IF v # NoExc THEN Fail(cleared, v)
    ELSE IF ~o.transport
    THEN Fail([cleared EXCEPT !.io = @ + 1], TransportError)
    ELSE Ok([cleared EXCEPT !.io = @ + 1, !.websocket = "open",
                            !.client_queue = <<>>, !.has_queue = TRUE,
                            !.stop_event = FALSE,
                            !.sender = "running", !.is_connected = TRUE])

\* AzureProvider.validate_provider_capabilities / _validate_capabilities_helper
AzureValidate(a) ==
    LET features == get_available_features("azure")
        p == a.params IN
    IF p.mode = "mt" /\ features.translation_one_way = "UNSUPPORTED"
    THEN ProviderError("Machine translation is not supported by Azure.")
    ELSE IF p.enable_speaker_diarization /\ p.mode # "stt"
    THEN ProviderError("Azure only supports speaker diarization in 'stt' mode.")
    ELSE IF p.enable_language_identification
            /\ features.language_identification = "UNSUPPORTED"
    THEN ProviderError("Language identification not supported by Azure.")
    ELSE IF p.enable_endpoint_detection
            /\ features.endpoint_detection = "UNSUPPORTED"
    THEN ProviderError("Endpoint detection not supported by Azure.")
    ELSE NoExc

\* AzureProvider.connect with _get_autodetect_lang_cfg and
\* _get_source_target_language; the recognizer is the transport
AzureConnect(a, o) ==
    LET v == AzureValidate(a)
        p == a.params
        cleared == [a EXCEPT !.error = NoExc]
        Fail(b, ex) == Raise([b EXCEPT !.error = ex], ProviderError(ex.msg))
        rewritten == [cleared EXCEPT
                         !.params.target_language = VendorCode(p.target_language),
                         !.params.source_languages = <<VendorCode(p.source_languages[1])>>]
        ready == IF p.mode = "stt" THEN cleared ELSE rewritten
    IN
    IF a.is_connected THEN Ok(a)
    ELSE IF v # NoExc THEN Raise(a, v)
    ELSE IF p.mode = "stt" /\ Len(p.language_hints) = 0
    THEN Fail(cleared, ProviderError("Azure does not support multilingual mode."))
    ELSE IF p.mode = "stt" /\ \E i \in 1..Len(p.language_hints) : ~InMapping(p.language_hints[i])
    THEN Fail(cleared, ProviderError("Language not supported by Azure."))
    ELSE IF p.mode = "mt" /\ Len(p.source_languages) # 1
    THEN Fail(cleared, ProviderError("Azure only supports single source language for translation."))
    ELSE IF p.mode = "mt" /\ ~InMapping(p.source_languages[1])
    THEN Fail(cleared, ProviderError("Source language not supported by Azure."))
    ELSE IF p.mode = "mt" /\ ~InMapping(p.target_language)
    THEN Fail(cleared, ProviderError("Target language not supported by Azure."))
    ELSE IF ~o.transport
    THEN Fail([ready EXCEPT !.io = @ + 1], TransportError)
    ELSE Ok([ready EXCEPT !.io = @ + 2, !.websocket = "open", !.loop_set = TRUE,
                          !.is_connected = TRUE, !.sender = "running"])

\* connect() without the `if self._is_connected: return` it starts with
connect_without_guard(a, o) ==
    LET b == [a EXCEPT !.is_connected = FALSE] IN
    CASE a.kind = "soniox" -> SonioxConnect(b, o)
      [] a.kind = "deepgram" -> DeepgramConnect(b, o)
      [] a.kind = "assembly" -> AssemblyConnect(b, o)
      [] a.kind = "speechmatics" -> SpeechmaticsConnect(b, o)
      [] a.kind = "openai" -> OpenaiConnect(b, o)
      [] a.kind = "google" -> GoogleConnect(b, o)
      [] a.kind = "azure" -> AzureConnect(b, o)

\* provider_instance.connect()
Connect(a, o) ==
    CASE a.kind = "soniox" -> SonioxConnect(a, o)
      [] a.kind = "deepgram" -> DeepgramConnect(a, o)
      [] a.kind = "assembly" -> AssemblyConnect(a, o)
      [] a.kind = "speechmatics" -> SpeechmaticsConnect(a, o)
      [] a.kind = "openai" -> OpenaiConnect(a, o)
      [] a.kind = "google" -> GoogleConnect(a, o)
      [] a.kind = "azure" -> AzureConnect(a, o)

-----------------------------------------------------------------------------
(* disconnect(), send(), send_end(), receive().                            *)

\* items of the inbound queue: k is "audio" (a bytes chunk), "text" (a str the
\* client sent), or an end-of-audio marker; n is the last_seq_no of a
\* Speechmatics EndOfStream
Item(k, n) == [k |-> k, n |-> n]

\* task.cancel(): a task that has not ended (it runs, is suspended in a write
\* to the client or in asyncio.sleep) ends with CancelledError
Cancel(t) == IF t \in {"running", "writing", "sleeping"} THEN "cancelled" ELSE t

\* The websocket adapters' disconnect() (Soniox, Deepgram, Assembly, Speechmatics,
\* OpenAI share it line for line).  c: websocket.close() returns; otherwise it
\* raises and the exception leaves disconnect().
WsDisconnect(a, c) ==
    LET a1 == [a EXCEPT !.is_connected = FALSE,
                        !.sender = Cancel(@), !.receiver = Cancel(@)]
    IN
    IF a.websocket = "none" THEN Ok(a1)
    ELSE IF a.websocket = "closed" THEN Ok(a1)
    ELSE IF c THEN Ok([a1 EXCEPT !.io = @ + 1, !.websocket = "closed"])
    ELSE Raise([a1 EXCEPT !.io = @ + 1], TransportError)

\* The end of GoogleProvider._manage_stream: its except clauses and its finally.
\* how: "eof" the response stream ended, "error" a response carried an error
\* (_handle_error), "exception" the stream raised, "cancelled" the task was
\* cancelled.
GoogleStreamEnd(a, how) ==
    LET a1 == CASE how = "error" ->
                     [a EXCEPT !.error = ProviderError("Google API Error in response message"),
                               !.host_queue = Append(@,
                                   error_message("Google API Error in response message", "google"))]
                [] how = "exception" ->
                     [a EXCEPT !.error = ProviderError("Google streaming error: " \o TransportError.msg),
                               !.host_queue = Append(@,
                                   error_message("google", "Google streaming error: " \o TransportError.msg))]
                [] how = "cancelled" -> [a EXCEPT !.error = CancelledError]
                [] OTHER -> a
    IN [a1 EXCEPT !.is_connected = FALSE,
                  !.stop_event = TRUE,
                  !.client_queue = IF a.has_queue /\ @ = <<>> THEN <<Item("None", 0)>> ELSE @,
                  !.host_queue = Append(@, NoneMessage),
                  !.sender = IF how = "cancelled" THEN "cancelled" ELSE "done"]

\* how the stream task ends while send_end() waits for it: by itself, or
\* cancelled after the 10 s timeout
GoogleWaits == {"eof", "error", "exception", "cancelled"}

\* GoogleProvider.send_end: returns once the stream task is done
GoogleSendEnd(a, w) ==
    LET a1 == [a EXCEPT !.stop_event = IF a.has_queue THEN TRUE ELSE @,
                        !.client_queue = IF a.has_queue THEN Append(@, Item("None", 0)) ELSE @]
    IN IF a.sender = "running" THEN Ok(GoogleStreamEnd(a1, w)) ELSE Ok(a1)

\* GoogleProvider.disconnect
GoogleDisconnect(a, w) ==
    LET a1 == GoogleSendEnd(a, w).a IN
    Ok([a1 EXCEPT !.websocket = "none",
                  !.is_connected = FALSE,
                  !.host_queue = <<NoneMessage>>])

\* AzureProvider.disconnect letting the timeout of the wait for the stop
\* acknowledgment out
AzureDisconnectRaises(a, c) ==
    LET a1 == [a EXCEPT !.is_connected = FALSE, !.sender = Cancel(@),
                        !.audio_stream = "closed"]
    IN
    IF a.websocket = "none" THEN Ok(a1)
    ELSE IF c THEN Ok([a1 EXCEPT !.io = @ + 1, !.websocket = "closed"])
    ELSE Raise([a1 EXCEPT !.io = @ + 1], Exc("TimeoutError", ""))

\* AzureProvider.disconnect.  c: the recognizer acknowledges the stop; otherwise
\* the wait fails and the failure is stored, not raised.
AzureDisconnect(a, c) ==
    LET a1 == [a EXCEPT !.is_connected = FALSE, !.sender = Cancel(@),
                        !.audio_stream = "closed"]
    IN
    IF a.websocket = "none" THEN Ok(a1)
    ELSE IF c THEN Ok([a1 EXCEPT !.io = @ + 1, !.websocket = "closed"])
    ELSE Ok([a1 EXCEPT !.io = @ + 1, !.error = Exc("TimeoutError", "")])

\* provider.disconnect(); c is the vendor's part in it
Disconnect(a, c) ==
    CASE a.kind = "google" -> GoogleDisconnect(a, IF c THEN "eof" ELSE "cancelled")
      [] a.kind = "azure" -> AzureDisconnect(a, c)
      [] OTHER -> WsDisconnect(a, c)

\* what send() does when put_nowait raises QueueFull
Overflow(a, c) ==
    LET full == ProviderError("Queue full: disconnecting.")
        d == Disconnect(a, c)
    IN
    CASE a.kind \in {"soniox", "assembly", "speechmatics"} ->
           IF d.exc # NoExc THEN d ELSE Raise(d.a, full)
      [] a.kind = "deepgram" ->
           LET e == Disconnect([a EXCEPT !.error = full], c) IN
           IF e.exc # NoExc THEN e ELSE Raise(e.a, e.a.error)
      [] a.kind = "openai" ->
           IF d.exc # NoExc THEN d ELSE Raise([d.a EXCEPT !.error = full], full)
      [] a.kind = "azure" ->
           LET e == Disconnect([a EXCEPT !.error = full], c) IN Raise(e.a, e.a.error)

\* asyncio.Queue.put_nowait on client_queue: the queue is full
QueueIsFull(a) == Len(a.client_queue) >= QUEUE_MAXSIZE

\* send(data) of the six adapters with a bounded client_queue
WsSend(a, item, c) ==
    IF a.kind # "soniox" /\ a.error # NoExc THEN Raise(a, a.error)
    ELSE IF ~a.is_connected THEN Raise(a, ProviderError("Not connected."))
    ELSE IF QueueIsFull(a) THEN Overflow(a, c)
    ELSE Ok([a EXCEPT !.client_queue = Append(@, item)])

\* GoogleProvider.send: the queue has no maxsize, put() always succeeds
GoogleSend(a, item) ==
    IF ~a.is_connected \/ ~a.has_queue \/ a.stop_event
    THEN LET reason == IF a.error # NoExc THEN a.error.msg
                       ELSE IF ~a.is_connected THEN "not connected"
                       ELSE IF ~a.has_queue THEN "audio queue not ready"
                       ELSE "stopping/stopped"
         IN Raise(a, ProviderError("GoogleProvider send failed: provider is " \o reason))
    ELSE IF item.k = "audio" THEN Ok([a EXCEPT !.client_queue = Append(@, item)])
    ELSE Raise(a, Exc("ValueError", "GoogleProvider received unexpected string data"))

\* provider.send(actual_payload)
Send(a, item, c) ==
    IF a.kind = "google" THEN GoogleSend(a, item) ELSE WsSend(a, item, c)

\* the result of a call that does not return: AzureProvider.send_end awaits
\* client_queue.put() on a full queue
Blocked == Exc("Blocked", "")

\* provider.send_end().  c: the vendor's part (a write to the socket succeeds);
\* w: how Google's stream task ends while send_end() waits for it.
SendEnd(a, c, w) ==
    CASE a.kind = "soniox" -> WsSend(a, Item("", 0), c)
      [] a.kind = "deepgram" ->
           IF a.websocket = "none" THEN Ok(a)
           ELSE IF QueueIsFull(a) THEN Raise(a, QueueFull)
           ELSE Ok([a EXCEPT !.client_queue = Append(@, Item("end", 0))])
      [] a.kind = "assembly" ->
           IF a.websocket = "none" THEN Raise(a, AssertionError)
           ELSE IF a.websocket = "open" /\ c
           THEN Ok([a EXCEPT !.io = @ + 1, !.wire = Append(@, "end")])
           ELSE Raise([a EXCEPT !.io = @ + 1], TransportError)
      [] a.kind = "speechmatics" ->
           IF QueueIsFull(a) THEN Raise(a, QueueFull)
           ELSE Ok([a EXCEPT !.client_queue =
                                 Append(@, Item("EndOfStream", a.num_sent_chunks))])
      [] a.kind = "openai" ->
           IF a.websocket = "none" THEN Ok(a)
           ELSE IF a.websocket = "open" /\ c
           THEN Ok([a EXCEPT !.io = @ + 1, !.wire = Append(@, "end"),
                             !.end_event = TRUE])
           ELSE Raise([a EXCEPT !.io = @ + 1], TransportError)
      [] a.kind = "google" -> GoogleSendEnd(a, w)
      [] a.kind = "azure" ->
           IF QueueIsFull(a) THEN Raise(a, Blocked)
           ELSE Ok([a EXCEPT !.client_queue = Append(@, Item("empty", 0))])

\* receive() handing the queue's items out newest first
receive_newest_first(a) ==
    [a |-> [a EXCEPT !.host_queue = <<>>],
     items |-> [i \in 1..Len(a.host_queue) |->
                   a.host_queue[Len(a.host_queue) + 1 - i]]]

\* receive() handing nothing out once the adapter is disconnected
receive_while_connected(a) ==
    IF a.is_connected THEN [a |-> [a EXCEPT !.host_queue = <<>>], items |-> a.host_queue]
    ELSE [a |-> a, items |-> <<>>]

\* provider.receive(): everything on the outbound queue, which is left empty
receive(a) == [a |-> [a EXCEPT !.host_queue = <<>>], items |-> a.host_queue]

-----------------------------------------------------------------------------
(* The adapters' loops.                                                    *)

\* disconnect() called by _handle_error inside the adapter's own sender or
\* receiver task: it cancels the task that runs it, so the await of
\* websocket.close() is interrupted.  c: the socket got closed all the same.
SelfDisconnect(a, c) ==
    [a EXCEPT !.is_connected = FALSE,
              !.sender = Cancel(@), !.receiver = Cancel(@),
              !.io = @ + 1,
              !.websocket = IF c THEN "closed" ELSE @]

\* _handle_error / _error of the websocket adapters: an error Message on the
\* outbound queue, then disconnect()
handle_error(a, text, c) ==
    SelfDisconnect([a EXCEPT !.host_queue = Append(@, error_message(a.kind, text))], c)

\* the sender loop can take a step: it is running and an item is queued
SenderEnabled(a) ==
    /\ a.kind \in Kinds \ {"google"}
    /\ a.sender = "running"
    /\ a.client_queue # <<>>

\* One iteration of _send_loop.  ok: the write to the vendor succeeds;
\* c: see SelfDisconnect.
SenderStep(a, ok, c) ==
    LET item == Head(a.client_queue)
        a1 == [a EXCEPT !.client_queue = Tail(@)]
        sent == [a1 EXCEPT !.io = @ + 1, !.wire = Append(@, item.k)]
        tried == [a1 EXCEPT !.io = @ + 1, !.vendor = @ + 1]
    IN
    CASE a.kind = "soniox" ->
           IF ok THEN sent ELSE handle_error(tried, TransportError.msg, c)
      [] a.kind = "deepgram" ->
           IF ok THEN sent
           ELSE handle_error([tried EXCEPT !.error = TransportError],
                             "Sender error: " \o TransportError.msg, c)
      [] a.kind = "assembly" ->
           IF item.k # "audio" THEN a1
           ELSE IF ok THEN sent
           ELSE handle_error([tried EXCEPT !.error = TransportError],
                             TransportError.msg, c)
      [] a.kind = "speechmatics" ->
           IF ok THEN [sent EXCEPT !.num_sent_chunks = @ + 1,
                                   !.last_seq_no = IF item.k = "EndOfStream"
                                                   THEN item.n ELSE @]
           ELSE handle_error([tried EXCEPT !.error = TransportError],
                             TransportError.msg, c)
      [] a.kind = "openai" ->
           \* base64.b64encode of a str raises TypeError
           IF item.k # "audio"
           THEN handle_error([a1 EXCEPT !.error = Exc("TypeError", "a bytes-like object is required")],
                             "a bytes-like object is required", c)
           ELSE IF ok THEN sent
           ELSE handle_error([tried EXCEPT !.error = TransportError],
                             TransportError.msg, c)
      [] a.kind = "azure" ->
           IF item.k = "audio" THEN sent
           ELSE IF item.k = "empty"
           THEN IF ok THEN [a1 EXCEPT !.audio_stream = "closed", !.sender = "done"]
                ELSE [tried EXCEPT !.error = TransportError, !.sender = "done"]
           ELSE a1

\* what a vendor sends: a transcript, an error message, a broken stream
\* (the iteration raises), the clean end of the stream
VendorEvents == {"data", "error", "exception", "eof"}

\* the receiver loop can take a step
ReceiverEnabled(a) ==
    /\ a.kind \in Kinds \ {"google", "azure"}
    /\ a.receiver = "running"

\* a data Message is put on the outbound queue
PutData(a) ==
    [a EXCEPT !.produced = @ + 1,
              !.host_queue = Append(@, DataMessage(a.kind, a.produced + 1))]

\* the parts of n tokens as they are written to the client
RECURSIVE PartsText(_)
PartsText(n) == IF n = 0 THEN "" ELSE PartsText(n - 1) \o "tok "

\* the queue q of Messages after the list the data messages with an id above
\* `from` hold as their parts has become txt
Shared(q, from, txt) ==
    [i \in 1..Len(q) |->
        IF q[i].type = "data" /\ q[i].id > from THEN [q[i] EXCEPT !.text = txt]
        ELSE q[i]]

\* OpenaiProvider._recv_loop on a transcription delta event: the token is
\* appended to non_final_parts and a Message whose "parts" is that list is put
\* on the outbound queue
OpenaiDelta(a) ==
    LET id == a.produced + 1
        txt == PartsText(a.non_final_parts + 1)
    IN [a EXCEPT !.vendor = @ + 1, !.produced = id,
                 !.non_final_parts = @ + 1,
                 !.host_queue = Append(Shared(@, a.list_from, txt),
                                       [DataMessage("openai", id) EXCEPT !.text = txt]),
                 !.enqueued = @ \cup {<<id, txt>>}]

\* One iteration of _recv_loop on vendor event ev.  For OpenAI "data" is the
\* completed event of a transcript: non_final_parts is bound to a new list and
\* a Message of final parts, a list of its own, is put on the queue.
ReceiverStep(a, ev, c) ==
    LET a1 == [a EXCEPT !.vendor = @ + 1]
        stored == [a1 EXCEPT !.error = TransportError]
        completed == [PutData(a1) EXCEPT !.non_final_parts = 0,
                                         !.list_from = a.produced + 1]
    IN
    CASE ev = "data" ->
           IF a.kind = "openai"
           THEN IF a.end_event THEN [completed EXCEPT !.receiver = "done"]
                ELSE completed
           ELSE PutData(a1)
      [] ev = "error" ->
           IF a.kind = "openai" THEN a1
           ELSE handle_error(a1, "vendor error", c)
      [] ev = "exception" ->
           CASE a.kind = "soniox" -> handle_error(a1, TransportError.msg, c)
             [] a.kind = "deepgram" ->
                  handle_error(stored, "Receiver error: " \o TransportError.msg, c)
             [] OTHER -> handle_error(stored, TransportError.msg, c)
      [] ev = "eof" -> [a1 EXCEPT !.receiver = "done"]

\* GoogleProvider._audio_request_generator can take an item off the queue
GeneratorEnabled(a) ==
    /\ a.kind = "google"
    /\ a.sender = "running"
    /\ ~a.stop_event
    /\ a.client_queue # <<>>

\* One iteration of _audio_request_generator: a chunk becomes a request to the
\* vendor; the None sentinel sets the stop event
GeneratorStep(a) ==
    LET item == Head(a.client_queue)
        a1 == [a EXCEPT !.client_queue = Tail(@)]
    IN IF item.k = "None" THEN [a1 EXCEPT !.stop_event = TRUE]
       ELSE [a1 EXCEPT !.io = @ + 1, !.wire = Append(@, item.k)]

\* GoogleProvider._manage_stream can take a response
StreamEnabled(a) ==
    /\ a.kind = "google"
    /\ a.sender = "running"

\* One iteration of the response loop of _manage_stream on vendor event ev
StreamStep(a, ev) ==
    LET a1 == [a EXCEPT !.vendor = @ + 1] IN
    IF ev = "data" THEN PutData(a1) ELSE GoogleStreamEnd(a1, ev)

\* the Azure SDK can call a callback: the recognizer runs
CallbackEnabled(a) ==
    /\ a.kind = "azure"
    /\ a.websocket = "open"
    /\ a.loop_set

\* what json.loads raises on a result of the vendor it cannot parse
JSONDecodeError == Exc("JSONDecodeError", "Expecting value")

\* _on_transcribing/_on_transcribed/_on_recognized/_on_canceled, on the SDK's
\* thread: the parts are built and run_coroutine_threadsafe queues the handler
\* on the event loop.  "exception": building the parts raises inside the try of
\* _on_transcribed or _process_translation_result, whose except clause stores
\* the exception and raises a ProviderError into the SDK.
AzureCallback(a, ev) ==
    CASE ev = "data" ->
           [a EXCEPT !.vendor = @ + 1, !.produced = @ + 1,
                     !.handoff = Append(@, DataMessage("azure", a.produced + 1))]
      [] ev = "exception" ->
           [a EXCEPT !.vendor = @ + 1, !.error = JSONDecodeError]
      [] OTHER ->
           [a EXCEPT !.vendor = @ + 1,
                     !.handoff = Append(@, error_message("azure", "Recognition canceled"))]

\* the event loop runs the oldest queued _handle_result / _handle_error
AzureRunHandoff(a, c) ==
    LET m == Head(a.handoff)
        a1 == [a EXCEPT !.handoff = Tail(@), !.host_queue = Append(@, m)]
    IN IF m.type = "data" THEN a1 ELSE AzureDisconnect(a1, c).a

-----------------------------------------------------------------------------
(* compare_websocket (src/main.py).                                        *)

\* The provider lists a session of Spec is opened with: one provider, or a
\* provider compared with Soniox (twice the same name included).
ProviderLists ==
    {<<n>> : n \in Names} \cup {<<n, "soniox">> : n \in Names}

\* the ProviderParams a session is opened with (main.py:110-118)
SessionParams ==
    {Params("stt", "none", FALSE, FALSE, FALSE, <<"en">>, <<>>, ""),
     Params("mt", "two_way", FALSE, FALSE, FALSE, <<"en">>, <<"de">>, "en")}

\* what websocket.receive() returns: a bytes frame, the text frame END, another
\* text frame, the disconnect message
FrameKinds == {"audio", "END", "text", "disconnect"}

\* what the ASGI server does with websocket.send_json(): the message reaches the
\* client; the client is gone and the call raises, or the message is dropped
WriteOutcomes == {"sent", "raised", "dropped"}

CanWrite(r) == IF clientOpen THEN r = "sent" ELSE r # "sent"

\* the calls compare_websocket made on one adapter object
NoCalls == [load |-> "none", connect |-> 0, send |-> 0, send_end |-> 0,
            disconnect |-> 0, raised |-> 0]

ModuleNotFoundError == Exc("ModuleNotFoundError", "No module named 'providers.bogus'")

\* active_providers[name] = provider_instance on an insertion-ordered dict
DictPut(d, name, inst) ==
    IF \E i \in 1..Len(d) : d[i][1] = name
    THEN [i \in 1..Len(d) |-> IF d[i][1] = name THEN <<name, inst>> ELSE d[i]]
    ELSE Append(d, <<name, inst>>)

\* the for loop over `providers` at index i: the next iteration, or the code
\* after the loop
AfterLoad(i) ==
    IF i > Len(providers) THEN [pc |-> "start", idx |-> 1]
    ELSE [pc |-> "load", idx |-> i]

\* the except clause of the loading loop leaving the loop instead
LoadExceptBreaks(i) == AfterLoad(Len(providers) + 1)

\* the except clause of the loading loop trying the same name again
LoadExceptRetries(i) == AfterLoad(i)

\* the except clause of the loading loop, once the error is written: the loop
\* goes on with the next name
LoadExcept(i) == AfterLoad(i + 1)

\* the for loop over active_providers at index i in the fan-out
AfterFanout(i) ==
    IF i > Len(active_providers) THEN [pc |-> "read", idx |-> 1]
    ELSE [pc |-> "fanout", idx |-> i]

\* the except clause of the fan-out leaving the loop over the adapters
FanoutExceptBreaks(i) == AfterFanout(Len(active_providers) + 1)

\* the except clause of the fan-out, once the error is written
FanoutExcept(i) == AfterFanout(i + 1)

\* the handler reading the next frame once the adapters are cleaned up
AfterCleanupReads(i) ==
    IF i > Len(active_providers) THEN [pc |-> "read", idx |-> 1]
    ELSE [pc |-> "cleanup", idx |-> i]

\* the for loop over active_providers at index i in the finally block
AfterCleanup(i) ==
    IF i > Len(active_providers) THEN [pc |-> "done", idx |-> 1]
    ELSE [pc |-> "cleanup", idx |-> i]

\* clientLog after websocket.send_json(m) with outcome r
Written(name, m, r) ==
    IF r = "sent" THEN [clientLog EXCEPT ![name] = Append(@, m)] ELSE clientLog

\* "Start receive tasks for each provider" (main.py:165-169): the tasks once
\* the loop over the dict act of adapters pr is through.  No await lies between
\* the loading loop and this one.
StartTasks(act, pr) ==
    [n \in Names |->
        IF \E i \in 1..Len(act) : act[i][1] = n /\ pr[act[i][2]].is_connected
        THEN "running" ELSE "none"]

\* get_provider_config handing the session's ProviderParams object itself to
\* the adapter
get_provider_config_shared(name, params) == [params |-> params, own |-> FALSE]

\* config.get_provider_config: ProviderConfig(params=deepcopy(params), ...).
\* own: the params the adapter is built with is an object of its own, which
\* nothing else refers to.
get_provider_config(name, params) == [params |-> params, own |-> TRUE]

\* the adapter objects pr when each holds the one ProviderParams object whose
\* value has become p
Aliased(pr, p) ==
    [k \in Inst |-> IF pr[k].kind = "none" THEN pr[k] ELSE [pr[k] EXCEPT !.params = p]]

\* One iteration of the loading loop (main.py:127-145); the last one goes on
\* to start the forwarding tasks
M_load ==
    /\ pc = "load"
    /\ idx <= Len(providers)
    /\ \E o \in ConnectOutcomes, r \in WriteOutcomes :
         LET name == providers[idx]
             cfg == get_provider_config(name, provider_params)
             cr == Construct(name, cfg.params)
             made == name # "bogus" /\ cr.exc = NoExc
             res == Connect(cr.a, o)
             exc == IF name = "bogus" THEN ModuleNotFoundError
                    ELSE IF ~made THEN cr.exc ELSE res.exc
             failed == exc # NoExc
             nxt == IF failed THEN LoadExcept(idx) ELSE AfterLoad(idx + 1)
         IN
         /\ CanWrite(r)
         /\ prov' = IF ~made THEN prov
                    ELSE IF cfg.own THEN [prov EXCEPT ![idx] = res.a]
                    ELSE Aliased([prov EXCEPT ![idx] = res.a], res.a.params)
         /\ provider_params' = IF made /\ ~cfg.own THEN res.a.params
                               ELSE provider_params
         /\ active_providers' = IF made THEN DictPut(active_providers, name, idx)
                                ELSE active_providers
         /\ calls' = [calls EXCEPT ![idx].load = IF failed THEN "failed" ELSE "ok",
                                   ![idx].connect = IF made THEN @ + 1 ELSE @]
         /\ clientLog' = IF failed THEN Written(name, error_message(name, exc.msg), r)
                         ELSE clientLog
         /\ IF failed /\ r = "raised"
            THEN /\ pc' = "finally" /\ idx' = idx /\ escaped' = "load"
                 /\ receive_tasks' = receive_tasks
            ELSE /\ pc' = IF nxt.pc = "start" THEN "read" ELSE nxt.pc
                 /\ idx' = nxt.idx /\ escaped' = escaped
                 /\ receive_tasks' =
                      IF nxt.pc = "start"
                      THEN StartTasks(active_providers', prov')
                      ELSE receive_tasks
    /\ UNCHANGED <<providers, batch, frame, frames, clientOpen, h, valVars>>

\* the frames the client may still send: MaxFrames payload frames, then it
\* can only disconnect; max is the bound on payload frames, kinds the payloads
ReadChoices(max, kinds) ==
    IF clientOpen /\ Len(frames) < max THEN kinds \cup {"disconnect"}
    ELSE {"disconnect"}

\* the instance active_providers holds under name
InstOf(name) ==
    LET i == CHOOSE i \in 1..Len(active_providers) : active_providers[i][1] = name
    IN active_providers[i][2]

\* websocket.receive() and the dispatch on the frame (main.py:172-189)
Read(max, kinds) ==
    /\ pc = "read"
    /\ \E f \in ReadChoices(max, kinds) :
         /\ frames' = Append(frames, f)
         /\ IF f = "disconnect"
            THEN /\ pc' = "finally" /\ idx' = 1
                 /\ clientOpen' = FALSE
                 /\ frame' = frame
            ELSE /\ pc' = AfterFanout(1).pc /\ idx' = 1
                 /\ clientOpen' = clientOpen
                 /\ frame' = f
    /\ UNCHANGED <<prov, providers, provider_params, active_providers, receive_tasks,
                   batch, clientLog, escaped, calls, h, valVars>>

M_read == Read(MaxFrames, FrameKinds \ {"disconnect"})

\* One iteration of "Send message to all providers" (main.py:191-206)
M_fanout ==
    /\ pc = "fanout"
    /\ idx <= Len(active_providers)
    /\ \E c \in BOOLEAN, w \in GoogleWaits, r \in WriteOutcomes :
         LET name == active_providers[idx][1]
             k == active_providers[idx][2]
             a == prov[k]
             res == IF frame = "END" THEN SendEnd(a, c, w) ELSE Send(a, Item(frame, 0), c)
             failed == res.exc # NoExc
             nxt == IF failed THEN FanoutExcept(idx) ELSE AfterFanout(idx + 1)
         IN
         /\ CanWrite(r)
         /\ IF ~a.is_connected
            THEN /\ pc' = AfterFanout(idx + 1).pc /\ idx' = AfterFanout(idx + 1).idx
                 /\ UNCHANGED <<prov, calls, clientLog, escaped>>
            ELSE /\ prov' = [prov EXCEPT ![k] = res.a]
                 /\ calls' = [calls EXCEPT
                                ![k].send = IF frame = "END" THEN @ ELSE @ + 1,
                                ![k].send_end = IF frame = "END" THEN @ + 1 ELSE @,
                                ![k].raised = IF failed /\ res.exc # Blocked
                                              THEN @ + 1 ELSE @]
                 /\ clientLog' =
                      IF failed /\ res.exc # Blocked
                      THEN Written(name,
                                   error_message(name, "Error while sending message to provider: "
                                                       \o res.exc.msg), r)
                      ELSE clientLog
                 /\ IF res.exc = Blocked
                    THEN pc' = "blocked" /\ idx' = idx /\ escaped' = escaped
                    ELSE IF failed /\ r = "raised"
                    THEN pc' = "finally" /\ idx' = idx /\ escaped' = "fanout"
                    ELSE pc' = nxt.pc /\ idx' = nxt.idx /\ escaped' = escaped
    /\ UNCHANGED <<providers, provider_params, active_providers, receive_tasks, batch,
                   frame, frames, clientOpen, h, valVars>>

\* the finally block: "Cancel all receive tasks" (main.py:208-211)
M_finally ==
    /\ pc = "finally"
    /\ receive_tasks' = [n \in Names |-> Cancel(receive_tasks[n])]
    /\ batch' = [n \in Names |-> <<>>]
    /\ pc' = AfterCleanup(1).pc
    /\ idx' = 1
    /\ UNCHANGED <<prov, providers, provider_params, active_providers, frame, frames,
                   clientOpen, clientLog, escaped, calls, h, valVars>>

\* One iteration of "Clean up providers" (main.py:213-225)
M_cleanup ==
    /\ pc = "cleanup"
    /\ idx <= Len(active_providers)
    /\ \E c \in BOOLEAN, r \in WriteOutcomes :
         LET name == active_providers[idx][1]
             k == active_providers[idx][2]
             a == prov[k]
             res == Disconnect(a, c)
             failed == res.exc # NoExc
             nxt == AfterCleanup(idx + 1)
         IN
         /\ CanWrite(r)
         /\ IF ~a.is_connected
            THEN /\ pc' = nxt.pc /\ idx' = nxt.idx
                 /\ UNCHANGED <<prov, calls, clientLog, escaped>>
            ELSE /\ prov' = [prov EXCEPT ![k] = res.a]
                 /\ calls' = [calls EXCEPT ![k].disconnect = @ + 1]
                 /\ clientLog' =
                      IF failed
                      THEN Written(name,
                                   error_message(name, "Error during provider cleanup: "
                                                       \o res.exc.msg), r)
                      ELSE clientLog
                 /\ IF failed /\ r = "raised"
                    THEN pc' = "done" /\ idx' = idx /\ escaped' = "cleanup"
                    ELSE pc' = nxt.pc /\ idx' = nxt.idx /\ escaped' = escaped
    /\ UNCHANGED <<providers, provider_params, active_providers, receive_tasks, batch,
                   frame, frames, clientOpen, h, valVars>>

\* the handler suspended in `await provider.send_end()` (main.py:198), the
\* adapter being suspended in `await self.client_queue.put(b"")`: the put
\* returns once the sender loop has taken an item off the full queue
M_resume ==
    /\ pc = "blocked"
    /\ LET k == active_providers[idx][2] IN
       /\ ~QueueIsFull(prov[k])
       /\ prov' = [prov EXCEPT ![k].client_queue = Append(@, Item("empty", 0))]
    /\ pc' = AfterFanout(idx + 1).pc
    /\ idx' = AfterFanout(idx + 1).idx
    /\ UNCHANGED <<providers, provider_params, active_providers, receive_tasks, batch,
                   frame, frames, clientOpen, clientLog, escaped, calls, h, valVars>>

\* the client closes its connection while the handler is not reading
ClientClose ==
    /\ clientOpen
    /\ pc \in {"load", "fanout"}
    /\ clientOpen' = FALSE
    /\ UNCHANGED <<prov, pc, providers, provider_params, idx, active_providers,
                   receive_tasks, batch, frame, frames, clientLog, escaped, calls,
                   h, valVars>>

\* forward_to_client: `messages = await provider_instance.receive()` returned a
\* non-empty list (an empty one leaves the task where it was)
F_receive ==
    \E n \in Names :
       /\ receive_tasks[n] = "running"
       /\ batch[n] = <<>>
       /\ prov[InstOf(n)].host_queue # <<>>
       /\ LET got == receive(prov[InstOf(n)]) IN
          /\ prov' = [prov EXCEPT ![InstOf(n)] = got.a]
          /\ batch' = [batch EXCEPT ![n] = got.items]
       /\ UNCHANGED <<pc, providers, provider_params, idx, active_providers,
                      receive_tasks, frame, frames, clientOpen, clientLog, escaped,
                      calls, h, valVars>>

\* forward_to_client: an iteration of `while True` in which receive() returned
\* the empty list: the for loop has nothing to do and the task is suspended in
\* asyncio.sleep(YIELD_DELAY_S); YIELD_DELAY_S being 0, the event loop resumes
\* it in its next cycle, whatever the queue holds
F_idle ==
    \E n \in Names :
       /\ \/ /\ receive_tasks[n] = "running"
             /\ batch[n] = <<>>
             /\ prov[InstOf(n)].host_queue = <<>>
             /\ receive_tasks' = [receive_tasks EXCEPT ![n] = "sleeping"]
          \/ /\ receive_tasks[n] = "sleeping"
             /\ receive_tasks' = [receive_tasks EXCEPT ![n] = "running"]
       /\ UNCHANGED <<prov, pc, providers, provider_params, idx, active_providers,
                      batch, frame, frames, clientOpen, clientLog, escaped, calls,
                      h, valVars>>

\* what websocket.send_json raises when the message cannot be encoded
EncodeError == Exc("TypeError", "Object is not JSON serializable")

\* the forwarding tasks stopping together when one of them fails
ForwardExceptStopsAll(n) ==
    [m \in Names |-> IF receive_tasks[m] = "running" THEN "done" ELSE receive_tasks[m]]

\* forward_to_client: its except clause ends the task of provider n
ForwardExcept(n) == [receive_tasks EXCEPT ![n] = "done"]

\* forward_to_client: one iteration of `for message in messages`.  bad: the
\* message cannot be encoded and send_json raises before anything is written;
\* the except clause then writes one error Message and the task ends.  A write
\* that fails because the client is gone ends the task as well, the write of
\* the except clause failing in turn.
Write(fails) ==
    \E n \in Names, r \in WriteOutcomes, bad \in fails :
       /\ receive_tasks[n] = "running"
       /\ batch[n] # <<>>
       /\ CanWrite(r)
       /\ LET m == Head(batch[n]) IN
          IF m.type = "none"
          THEN /\ ~bad
               /\ batch' = [batch EXCEPT ![n] = Tail(@)]
               /\ UNCHANGED <<clientLog, receive_tasks>>
          ELSE IF bad
          THEN /\ batch' = [batch EXCEPT ![n] = <<>>]
               /\ receive_tasks' = ForwardExcept(n)
               /\ clientLog' = Written(n, error_message(n, "Receive error: " \o EncodeError.msg), r)
          ELSE IF r = "raised"
          THEN /\ batch' = [batch EXCEPT ![n] = <<>>]
               /\ receive_tasks' = ForwardExcept(n)
               /\ UNCHANGED clientLog
          ELSE /\ batch' = [batch EXCEPT ![n] = Tail(@)]
               /\ clientLog' = Written(n, [m EXCEPT !.provider = n], r)
               /\ UNCHANGED receive_tasks
       /\ UNCHANGED <<prov, pc, providers, provider_params, idx, active_providers,
                      frame, frames, clientOpen, escaped, calls, h, valVars>>

\* the forwarding tasks of a session whose messages can all be encoded
F_write == Write({FALSE})

\* forward_to_client calls websocket.send_json(message) and is suspended in the
\* await: the task is "writing".  A None is skipped without any await.
X_begin ==
    \E n \in Names :
       /\ receive_tasks[n] = "running"
       /\ batch[n] # <<>>
       /\ IF Head(batch[n]).type = "none"
          THEN /\ batch' = [batch EXCEPT ![n] = Tail(@)]
               /\ UNCHANGED receive_tasks
          ELSE /\ receive_tasks' = [receive_tasks EXCEPT ![n] = "writing"]
               /\ UNCHANGED batch
       /\ UNCHANGED <<prov, pc, providers, provider_params, idx, active_providers,
                      frame, frames, clientOpen, clientLog, escaped, calls, h, valVars>>

\* the send_json a forwarding task is suspended in returns or raises: what
\* Write does with the message, from the state the await left the task in
X_end ==
    \E n \in Names :
       /\ receive_tasks[n] = "writing"
       /\ LET resumed == [receive_tasks EXCEPT ![n] = "running"]
          IN \E r \in WriteOutcomes, bad \in BOOLEAN :
                /\ CanWrite(r)
                /\ LET m == Head(batch[n]) IN
                   IF bad
                   THEN /\ batch' = [batch EXCEPT ![n] = <<>>]
                        /\ receive_tasks' = ForwardExcept(n)
                        /\ clientLog' = Written(n, error_message(n, "Receive error: " \o EncodeError.msg), r)
                   ELSE IF r = "raised"
                   THEN /\ batch' = [batch EXCEPT ![n] = <<>>]
                        /\ receive_tasks' = ForwardExcept(n)
                        /\ UNCHANGED clientLog
                   ELSE /\ batch' = [batch EXCEPT ![n] = Tail(@)]
                        /\ clientLog' = Written(n, [m EXCEPT !.provider = n], r)
                        /\ receive_tasks' = resumed
       /\ UNCHANGED <<prov, pc, providers, provider_params, idx, active_providers,
                      frame, frames, clientOpen, escaped, calls, h, valVars>>

-----------------------------------------------------------------------------
(* The adapters' tasks and the vendors, as steps of the system.            *)

\* the vendors still have events to deliver in this run; max bounds them
VendorLeft(max) == prov[1].vendor + prov[2].vendor < max

\* a sender task runs one iteration of _send_loop
SendLoop(max) ==
    /\ \E k \in Inst, ok \in BOOLEAN, c \in BOOLEAN :
          /\ SenderEnabled(prov[k])
          /\ ok \/ VendorLeft(max)
          /\ prov' = [prov EXCEPT ![k] = SenderStep(prov[k], ok, c)]
    /\ UNCHANGED <<sessVars, h, valVars>>

\* a receiver task runs one iteration of _recv_loop
RecvLoop(max) ==
    /\ \E k \in Inst, ev \in VendorEvents, c \in BOOLEAN :
          /\ ReceiverEnabled(prov[k])
          /\ VendorLeft(max)
          /\ prov' = [prov EXCEPT ![k] = ReceiverStep(prov[k], ev, c)]
    /\ UNCHANGED <<sessVars, h, valVars>>

\* OpenAI's receiver task runs one iteration of _recv_loop on a delta event.
\* The messages the forwarding task holds share the list as well; the first of
\* them is the one send_json has already encoded (no await lies between
\* receive() and the encoding, nor between the return of one send_json and the
\* encoding of the next message).
D_delta ==
    /\ \E k \in Inst :
          /\ ReceiverEnabled(prov[k])
          /\ prov[k].kind = "openai"
          /\ VendorLeft(MaxVendor)
          /\ prov' = [prov EXCEPT ![k] = OpenaiDelta(prov[k])]
          /\ batch' = [batch EXCEPT !["openai"] =
                          IF @ = <<>> THEN @
                          ELSE <<Head(@)>> \o
                               Shared(Tail(@), prov[k].list_from,
                                      PartsText(prov[k].non_final_parts + 1))]
    /\ UNCHANGED <<pc, providers, provider_params, idx, active_providers,
                   receive_tasks, frame, frames, clientOpen, clientLog, escaped,
                   calls, h, valVars>>

\* Google's request generator takes one item
G_generator ==
    /\ \E k \in Inst :
          /\ GeneratorEnabled(prov[k])
          /\ prov' = [prov EXCEPT ![k] = GeneratorStep(prov[k])]
    /\ UNCHANGED <<sessVars, h, valVars>>

\* Google's stream task takes one response
Stream(max) ==
    /\ \E k \in Inst, ev \in VendorEvents :
          /\ StreamEnabled(prov[k])
          /\ VendorLeft(max)
          /\ prov' = [prov EXCEPT ![k] = StreamStep(prov[k], ev)]
    /\ UNCHANGED <<sessVars, h, valVars>>

\* the Azure SDK calls a callback on its own thread
Callback(max) ==
    /\ \E k \in Inst, ev \in {"data", "error", "exception"} :
          /\ CallbackEnabled(prov[k])
          /\ VendorLeft(max)
          /\ prov' = [prov EXCEPT ![k] = AzureCallback(prov[k], ev)]
    /\ UNCHANGED <<sessVars, h, valVars>>

\* the event loop runs a coroutine an Azure callback submitted
Az_handoff ==
    /\ \E k \in Inst, c \in BOOLEAN :
          /\ prov[k].kind = "azure"
          /\ prov[k].handoff # <<>>
          /\ prov' = [prov EXCEPT ![k] = AzureRunHandoff(prov[k], c)]
    /\ UNCHANGED <<sessVars, h, valVars>>

\* the loops as they run in a session of Spec
S_send_loop == SendLoop(MaxSessionVendor)

S_recv_loop == RecvLoop(MaxSessionVendor)

S_stream == Stream(MaxSessionVendor)

S_callback == Callback(MaxSessionVendor)

\* the loops as they run in SpecAdapter and SpecStream
A_send_loop == SendLoop(MaxVendor)

A_recv_loop == RecvLoop(MaxVendor)

G_stream == Stream(MaxVendor)

Az_callback == Callback(MaxVendor)

-----------------------------------------------------------------------------
(* One adapter driven directly: the public operations in any order.        *)

NoOp == [op |-> "none", exc |-> NoExc, before |-> NoProvider,
         after |-> NoProvider, n |-> 0]

\* the harness called op on the adapter in state `before`; it raised exc and
\* left the adapter in state `after`
Called(op, res) ==
    /\ h.n < MaxCalls
    /\ prov' = [prov EXCEPT ![1] = res.a]
    /\ h' = [op |-> op, exc |-> res.exc, before |-> prov[1], after |-> res.a,
             n |-> h.n + 1]
    /\ UNCHANGED <<sessVars, valVars>>

H_connect == \E o \in ConnectOutcomes : Called("connect", Connect(prov[1], o))

H_send ==
    \E k \in {"audio", "text"}, c \in BOOLEAN :
        Called("send", Send(prov[1], Item(k, 0), c))

H_send_end ==
    \E c \in BOOLEAN, w \in GoogleWaits : Called("send_end", SendEnd(prov[1], c, w))

H_receive == Called("receive", Ok(receive(prov[1]).a))

H_disconnect == \E c \in BOOLEAN : Called("disconnect", Disconnect(prov[1], c))

-----------------------------------------------------------------------------
(* validate_capabilities applied to one input.                             *)

V_validate ==
    /\ vout = Exc("pending", "")
    /\ vout' = validate_capabilities(vin.features, vin.params, vin.provider)
    /\ UNCHANGED <<prov, sessVars, h, vin>>

-----------------------------------------------------------------------------
(* Initial states and the specifications.                                  *)

PlainParams == Params("stt", "none", FALSE, FALSE, FALSE, <<"en">>, <<>>, "")

NoInput == [features |-> get_available_features("soniox"), params |-> PlainParams,
            provider |-> ""]

\* the session's variables in the state compare_websocket starts the loading
\* loop in (after websocket.accept()), for provider list ps and params pp
SessionInit(ps, pp, at) ==
    /\ pc = at
    /\ providers = ps
    /\ provider_params = pp
    /\ idx = 1
    /\ active_providers = <<>>
    /\ receive_tasks = [n \in Names |-> "none"]
    /\ batch = [n \in Names |-> <<>>]
    /\ frame = ""
    /\ frames = <<>>
    /\ clientOpen = TRUE
    /\ clientLog = [n \in Names |-> <<>>]
    /\ escaped = "no"
    /\ calls = [k \in Inst |-> NoCalls]

Init ==
    /\ \E ps \in ProviderLists, pp \in SessionParams : SessionInit(ps, pp, "load")
    /\ prov = [k \in Inst |-> NoProvider]
    /\ h = NoOp
    /\ vin = NoInput
    /\ vout = Exc("idle", "")

Next ==
    \/ M_load
    \/ M_read
    \/ M_fanout
    \/ M_finally
    \/ M_cleanup
    \/ ClientClose
    \/ F_receive
    \/ F_write
    \/ S_send_loop
    \/ S_recv_loop
    \/ G_generator
    \/ S_stream
    \/ S_callback
    \/ Az_handoff

Spec == Init /\ [][Next]_vars

\* a session of one provider, whose vendor sends up to MaxVendor events
InitStream ==
    /\ \E n \in Kinds : SessionInit(<<n>>, PlainParams, "load")
    /\ prov = [k \in Inst |-> NoProvider]
    /\ h = NoOp
    /\ vin = NoInput
    /\ vout = Exc("idle", "")

NextStream ==
    \/ M_load
    \/ M_read
    \/ M_fanout
    \/ M_finally
    \/ M_cleanup
    \/ ClientClose
    \/ F_receive
    \/ F_write
    \/ A_send_loop
    \/ A_recv_loop
    \/ G_generator
    \/ G_stream
    \/ Az_callback
    \/ Az_handoff

SpecStream == InitStream /\ [][NextStream]_vars

\* a session of one provider whose client sends audio frames only, more than an
\* inbound queue holds, while nothing is drained towards the vendor
InitOverflow ==
    /\ \E n \in Kinds : SessionInit(<<n>>, PlainParams, "load")
    /\ prov = [k \in Inst |-> NoProvider]
    /\ h = NoOp
    /\ vin = NoInput
    /\ vout = Exc("idle", "")

O_read == Read(QUEUE_MAXSIZE + 2, {"audio"})

NextOverflow ==
    \/ M_load
    \/ O_read
    \/ M_fanout
    \/ M_finally
    \/ M_cleanup
    \/ ClientClose

SpecOverflow == InitOverflow /\ [][NextOverflow]_vars

\* the ProviderParams an adapter is constructed with
AdapterParams ==
    {Params(m[1], m[2], f[1], f[2], f[3], hints, l[1], l[2]) :
        m \in {<<"stt", "none">>, <<"mt", "one_way">>, <<"mt", "two_way">>},
        f \in {<<FALSE, FALSE, FALSE>>, <<TRUE, FALSE, FALSE>>,
               <<FALSE, TRUE, FALSE>>, <<FALSE, FALSE, TRUE>>},
        hints \in {<<>>, <<"en">>, <<"zz">>},
        l \in {<<<<"de">>, "en">>, <<<<>>, "en">>, <<<<"de">>, "zz">>}}

InitAdapter ==
    /\ \E kind \in Kinds, pp \in AdapterParams :
          /\ pp.mode = "stt" => pp.source_languages = <<>> /\ pp.target_language = "en"
          /\ Construct(kind, pp).exc = NoExc
          /\ prov = [k \in Inst |-> IF k = 1 THEN Construct(kind, pp).a ELSE NoProvider]
    /\ SessionInit(<<>>, PlainParams, "adapter")
    /\ h = NoOp
    /\ vin = NoInput
    /\ vout = Exc("idle", "")

NextAdapter ==
    \/ H_connect
    \/ H_send
    \/ H_send_end
    \/ H_receive
    \/ H_disconnect
    \/ A_send_loop
    \/ A_recv_loop
    \/ G_generator
    \/ G_stream
    \/ Az_callback
    \/ Az_handoff

SpecAdapter == InitAdapter /\ [][NextAdapter]_vars

\* every capability matrix, every combination of the validated parameters
ValidateInputs ==
    [features : [translation_one_way : FeatureState, translation_two_way : FeatureState,
                 speaker_diarization : FeatureState,
                 language_identification : FeatureState,
                 endpoint_detection : FeatureState],
     params : {Params(m[1], m[2], di, li, ep, <<"en">>, <<>>, "") :
                  m \in {<<"stt", "none">>, <<"mt", "one_way">>, <<"mt", "two_way">>},
                  di \in BOOLEAN, li \in BOOLEAN, ep \in BOOLEAN},
     provider : {"Soniox", "Azure"}]

InitValidate ==
    /\ vin \in ValidateInputs
    /\ vout = Exc("pending", "")
    /\ prov = [k \in Inst |-> NoProvider]
    /\ SessionInit(<<>>, PlainParams, "idle")
    /\ h = NoOp

NextValidate == V_validate

SpecValidate == InitValidate /\ [][NextValidate]_vars

\* a session of a provider beside Soniox whose client stays until it
\* disconnects in the ordinary way; a forwarding task is suspended while it
\* writes to the client, and encoding a message may fail
ForwardLists == {<<n, "soniox">> : n \in Kinds}

InitForward ==
    /\ \E ps \in ForwardLists : SessionInit(ps, PlainParams, "load")
    /\ prov = [k \in Inst |-> NoProvider]
    /\ h = NoOp
    /\ vin = NoInput
    /\ vout = Exc("idle", "")

X_read == Read(MaxForwardFrames, {"audio"})

NextForward ==
    \/ M_load
    \/ X_read
    \/ M_fanout
    \/ M_finally
    \/ M_cleanup
    \/ F_receive
    \/ X_begin
    \/ X_end
    \/ A_send_loop
    \/ A_recv_loop
    \/ G_generator
    \/ G_stream
    \/ Az_callback
    \/ Az_handoff

SpecForward == InitForward /\ [][NextForward]_vars

\* a session of one provider as in SpecStream, in which OpenAI's vendor also
\* sends transcription delta events
NextDelta == NextStream \/ D_delta

SpecDelta == InitStream /\ [][NextDelta]_vars

\* a session of one provider as in SpecStream, with the iterations of the
\* forwarding task that find the outbound queue empty as steps of their own
NextIdle == NextStream \/ F_idle

SpecIdle == InitStream /\ [][NextIdle]_vars

\* a session of one provider whose client sends END or audio, then audio
\* frames until the inbound queue can be full, then END or audio again, while
\* the adapter's sender loop runs and the vendor accepts what it writes
BlockKinds ==
    IF Len(frames) \in {0, QUEUE_MAXSIZE + 1} THEN {"audio", "END"} ELSE {"audio"}

B_read == Read(QUEUE_MAXSIZE + 2, BlockKinds)

\* the sender loops while the vendor accepts every write
B_send_loop == SendLoop(0)

NextBlock ==
    \/ M_load
    \/ B_read
    \/ M_fanout
    \/ M_resume
    \/ M_finally
    \/ M_cleanup
    \/ B_send_loop

SpecBlock == InitStream /\ [][NextBlock]_vars

\* SpecStream with the forwarding task scheduled fairly: the event loop runs
\* every ready task in turn, so a forwarding task that can take messages from
\* its adapter or write one to the client eventually does
SpecFair ==
    /\ InitStream
    /\ [][NextStream]_vars
    /\ WF_vars(F_receive)
    /\ WF_vars(F_write)

\* the loading of two providers, in either order, for a transcription, a
\* one-way and a two-way translation request
ParamsLists == {<<a, b>> : a \in Kinds, b \in Kinds}

ParamsChoices ==
    {Params("stt", "none", FALSE, FALSE, FALSE, <<"en">>, <<>>, ""),
     Params("mt", "one_way", FALSE, FALSE, FALSE, <<>>, <<"de">>, "en"),
     Params("mt", "two_way", FALSE, FALSE, FALSE, <<"en">>, <<"de">>, "en")}

InitParams ==
    /\ \E ps \in ParamsLists, pp \in ParamsChoices : SessionInit(ps, pp, "load")
    /\ prov = [k \in Inst |-> NoProvider]
    /\ h = NoOp
    /\ vin = NoInput
    /\ vout = Exc("idle", "")

NextParams == M_load

SpecParams == InitParams /\ [][NextParams]_vars

-----------------------------------------------------------------------------
(* Properties.                                                             *)

\* rule n of the fixed order is violated by params p against matrix f
C8_Violated(n, f, p) ==
    CASE n = 1 -> p.mode = "mt" /\ f.translation_one_way = "UNSUPPORTED"
      [] n = 2 -> p.mode = "mt" /\ p.ttype = "two_way"
                  /\ f.translation_two_way # "SUPPORTED"
      [] n = 3 -> p.enable_speaker_diarization /\ f.speaker_diarization = "UNSUPPORTED"
      [] n = 4 -> p.enable_language_identification
                  /\ f.language_identification = "UNSUPPORTED"
      [] n = 5 -> p.enable_endpoint_detection /\ f.endpoint_detection = "UNSUPPORTED"

\* a matrix and params that violate rule n and no other rule
C8_OnlyFeatures(n) ==
    Features(IF n = 1 THEN "UNSUPPORTED" ELSE "SUPPORTED",
             IF n = 2 THEN "UNSUPPORTED" ELSE "SUPPORTED",
             IF n = 3 THEN "UNSUPPORTED" ELSE "SUPPORTED",
             IF n = 4 THEN "UNSUPPORTED" ELSE "SUPPORTED",
             IF n = 5 THEN "UNSUPPORTED" ELSE "SUPPORTED")

C8_OnlyParams(n) ==
    Params(IF n \in {1, 2} THEN "mt" ELSE "stt",
           IF n = 1 THEN "one_way" ELSE IF n = 2 THEN "two_way" ELSE "none",
           n = 3, n = 4, n = 5, <<"en">>, <<>>, "")

\* the error of rule n: what is raised when rule n alone is violated
C8_ErrorOf(n, provider) ==
    validate_capabilities(C8_OnlyFeatures(n), C8_OnlyParams(n), provider)

C8_ViolatedRules == {n \in 1..5 : C8_Violated(n, vin.features, vin.params)}

C8_Lowest == CHOOSE n \in C8_ViolatedRules : \A m \in C8_ViolatedRules : n <= m

\* C8: validate_capabilities raises nothing when no rule is violated, and
\* otherwise the error of the lowest-numbered violated rule; the five rules'
\* errors are ProviderErrors that differ from each other and with the provider
\* named.  (Rule 2 counts every state of translation_two_way other than
\* SUPPORTED as not supported; rules 1, 3, 4, 5 count UNSUPPORTED.)
C8_FirstViolatedRule ==
    /\ vout # Exc("pending", "") =>
          IF C8_ViolatedRules = {} THEN vout = NoExc
          ELSE vout = C8_ErrorOf(C8_Lowest, vin.provider)
    /\ \A n \in 1..5 :
          /\ C8_ErrorOf(n, "Soniox").cls = "ProviderError"
          /\ C8_ErrorOf(n, "Soniox") # C8_ErrorOf(n, "Azure")
          /\ \A m \in 1..5 : m # n => C8_ErrorOf(n, "Soniox") # C8_ErrorOf(m, "Soniox")

\* validate_capabilities has run on params that violate rules 2, 3 and 5 at
\* once, rule 2 against a PARTIAL two-way translation, and raised rule 2's error
C8_Witness ==
    /\ vout = C8_ErrorOf(2, vin.provider)
    /\ C8_ViolatedRules = {2, 3, 5}
    /\ vin.features.translation_two_way = "PARTIAL"

\* the adapter the harness of SpecAdapter drives
Adapter == prov[1]

\* the params the adapter was asked to connect with violate its matrix
C7_Mismatch ==
    validate_capabilities(get_available_features(Adapter.kind), h.before.params,
                          DisplayName(Adapter.kind)) # NoExc

\* C7: a connect() whose params violate the adapter's capability matrix raises
\* a ProviderError, makes no call into the vendor's transport or client, and
\* starts no sender or receiver loop.
C7_ValidationBeforeIO ==
    (h.op = "connect" /\ ~h.before.is_connected /\ C7_Mismatch) =>
        /\ h.exc.cls = "ProviderError"
        /\ h.after.io = h.before.io
        /\ h.after.websocket = h.before.websocket
        /\ h.after.sender = h.before.sender
        /\ h.after.receiver = h.before.receiver

\* AzureProvider.connect() went on to create and start its recognizer for a
\* two-way translation request, which Azure's matrix marks UNSUPPORTED
C7_Witness ==
    /\ h.op = "connect"
    /\ Adapter.kind = "azure"
    /\ h.before.params.ttype = "two_way"
    /\ C7_Mismatch
    /\ h.exc = NoExc
    /\ h.after.is_connected
    /\ h.after.io > h.before.io
    /\ h.after.sender = "running"

\* the errors an adapter raises for "not connected"
C9_NotConnected ==
    {ProviderError("Not connected."),
     ProviderError("GoogleProvider send failed: provider is not connected")}

\* C9: send() on an adapter that was never connected and holds no error raises
\* a not-connected error; send() on an adapter holding a stored error raises
\* that stored error; in both cases nothing is enqueued and no transport I/O
\* is done.
C9_SendRejection ==
    h.op = "send" =>
        /\ (h.before.sender = "none" /\ h.before.error = NoExc) =>
              /\ h.exc \in C9_NotConnected
              /\ h.after.client_queue = h.before.client_queue
              /\ h.after.io = h.before.io
        /\ h.before.error # NoExc =>
              /\ h.exc = h.before.error
              /\ h.after.client_queue = h.before.client_queue
              /\ h.after.io = h.before.io

\* GoogleProvider.send() on an adapter holding a stored error raised another
\* error than the stored one
C9_Witness ==
    /\ h.op = "send"
    /\ Adapter.kind = "google"
    /\ h.before.error # NoExc
    /\ h.exc.cls = "ProviderError"
    /\ h.exc # h.before.error
    /\ h.after.error = h.before.error

\* C10: after a connect() that raised, the adapter is not connected and holds
\* a stored error.
C10_ConnectFailureRecorded ==
    (h.op = "connect" /\ h.exc # NoExc) =>
        /\ ~h.after.is_connected
        /\ h.after.error # NoExc

\* SonioxProvider.connect() raised because the transport could not be
\* established, and the adapter holds no stored error
C10_Witness ==
    /\ h.op = "connect"
    /\ Adapter.kind = "soniox"
    /\ h.exc = ProviderError(TransportError.msg)
    /\ h.after.io > h.before.io
    /\ ~h.after.is_connected
    /\ h.after.error = NoExc

\* the error Messages the client got under name whose text is t
ErrorsWith(name, t) ==
    {i \in 1..Len(clientLog[name]) :
        clientLog[name][i].type = "error" /\ clientLog[name][i].text = t}

\* the error Messages the client got under name
ErrorsOf(name) ==
    {i \in 1..Len(clientLog[name]) : clientLog[name][i].type = "error"}

\* C3: an inbound queue never holds more than 100 chunks, and once send() was
\* called more than 100 times on an adapter whose queue is not drained, the
\* adapter is disconnected, the call that overflowed raised, and the client
\* got exactly one error Message for the provider, the overflow error.  (Runs
\* in which closing the vendor transport itself fails are left aside.)
C3_OverflowFailClosed ==
    \A i \in 1..Len(active_providers) :
        LET name == active_providers[i][1]
            a == prov[active_providers[i][2]]
            c == calls[active_providers[i][2]]
        IN
        /\ Len(a.client_queue) <= QUEUE_MAXSIZE
        /\ (c.load = "ok" /\ c.send > QUEUE_MAXSIZE
               /\ ~(a.websocket = "open" /\ ~a.is_connected)) =>
              /\ ~a.is_connected
              /\ c.raised = 1
              /\ clientOpen =>
                    /\ Cardinality(ErrorsOf(name)) = 1
                    /\ Cardinality(ErrorsWith(name,
                          "Error while sending message to provider: Queue full: disconnecting.")) = 1

\* the Google adapter took a 101st chunk into its queue: send() did not raise
\* and the adapter is still connected
C3_Witness ==
    /\ prov[1].kind = "google"
    /\ prov[1].is_connected
    /\ Len(prov[1].client_queue) = QUEUE_MAXSIZE + 1
    /\ calls[1].send = QUEUE_MAXSIZE + 1
    /\ calls[1].raised = 0
    /\ clientLog["google"] = <<>>

\* the payload frames read so far
Payloads == SelectSeq(frames, LAMBDA f : f # "disconnect")

\* positions of `providers` whose name occurs once in the list
Single(i) == \A j \in 1..Len(providers) : j # i => providers[j] # providers[i]

\* the loading of providers[i] failed: resolving, constructing or connecting
Failed(i) == calls[i].load = "failed"

\* C1: while the client is connected, a provider A whose loading failed has
\* exactly one error Message under its name, for the whole session; the
\* loading loop went on to every other name of the list; every adapter that is
\* connected when the loop is through has a forwarding task; and each payload
\* frame read since was passed to send()/send_end() of every adapter that is
\* still connected.
C1_ConnectFailureIsolation ==
    \A i \in 1..Len(providers) :
        (Failed(i) /\ Single(i) /\ clientOpen) =>
            /\ Cardinality(ErrorsOf(providers[i])) = 1
            /\ pc # "load" => \A j \in 1..Len(providers) : calls[j].load # "none"
            /\ \A j \in 1..Len(providers) :
                  (pc = "read" /\ calls[j].load = "ok" /\ prov[j].is_connected) =>
                      /\ receive_tasks[providers[j]] = "running"
                      /\ calls[j].send + calls[j].send_end = Len(Payloads)

\* provider A failed to load, provider B connected after it, the client has got
\* A's error Message, B has a forwarding task and was passed an audio frame
C1_Witness ==
    /\ Len(providers) = 2
    /\ providers[1] # providers[2]
    /\ Failed(1)
    /\ calls[2].load = "ok"
    /\ clientOpen
    /\ pc = "read"
    /\ Cardinality(ErrorsOf(providers[1])) = 1
    /\ receive_tasks[providers[2]] = "running"
    /\ frames = <<"audio">>
    /\ calls[2].send = 1

\* the Messages of type data the client got under name, in the order it got them
DataOf(name) == SelectSeq(clientLog[name], LAMBDA m : m.type = "data")

\* C2: the data Messages the client got for a provider are the first, second,
\* ... Message the adapter produced, in that order: none out of order, none
\* twice, none merged with another.
C2_PerProviderFifo ==
    \A n \in Names : \A i \in 1..Len(DataOf(n)) : DataOf(n)[i].id = i

\* the client got two data Messages of the Azure adapter, whose callbacks run on
\* the SDK's thread
C2_Witness ==
    /\ Len(DataOf("azure")) = 2
    /\ DataOf("azure")[2].id = 2

\* what send() and send_end() raise in a session, as str(ex)
RaisedTexts ==
    {TransportError.msg, AssertionError.msg, JSONDecodeError.msg, "Not connected.",
     "Queue full: disconnecting.",
     "GoogleProvider received unexpected string data",
     "GoogleProvider send failed: provider is stopping/stopped"}

\* the error Messages the fan-out wrote under name
FanoutErrors(name) ==
    {i \in 1..Len(clientLog[name]) :
        /\ clientLog[name][i].type = "error"
        /\ \E t \in RaisedTexts :
              clientLog[name][i].text = "Error while sending message to provider: " \o t}

\* C4: while the client is connected, every send()/send_end() that raised in
\* the fan-out gave the client one error Message under that provider's name,
\* every payload frame read was still passed to every adapter that is
\* connected, and the handler has not left its read loop.
C4_FanoutIsolation ==
    clientOpen =>
        /\ pc \in {"load", "read", "fanout", "blocked"}
        /\ \A i \in 1..Len(active_providers) :
              LET name == active_providers[i][1]
                  k == active_providers[i][2]
              IN
              /\ Cardinality(FanoutErrors(name)) = calls[k].raised
              /\ (pc = "read" /\ prov[k].is_connected) =>
                    calls[k].send + calls[k].send_end = Len(Payloads)

\* in a session of two connected adapters the first one's send()/send_end()
\* raised on the first frame; the client got the error Message, the second
\* adapter got the frame, and the handler read and fanned out a second frame
C4_Witness ==
    /\ Len(active_providers) = 2
    /\ clientOpen
    /\ pc = "read"
    /\ Len(Payloads) = 2
    /\ calls[1].raised = 1
    /\ Cardinality(FanoutErrors(providers[1])) = 1
    /\ prov[2].is_connected
    /\ calls[2].send + calls[2].send_end = 2
    /\ calls[2].raised = 0

\* C5: when compare_websocket is through, no forwarding task is left running,
\* no adapter of active_providers is still connected (disconnect() was invoked
\* on each that was), and no exception of the cleanup left the handler.
C5_TeardownComplete ==
    pc = "done" =>
        /\ escaped # "cleanup"
        /\ \A n \in Names : receive_tasks[n] # "running"
        /\ \A i \in 1..Len(active_providers) :
              ~prov[active_providers[i][2]].is_connected

\* the cleanup of the first adapter raised, writing the error Message to the
\* closed client raised too, and the handler ended with the second adapter
\* still connected, its disconnect() never invoked
C5_Witness ==
    /\ pc = "done"
    /\ escaped = "cleanup"
    /\ Len(active_providers) = 2
    /\ calls[1].disconnect = 1
    /\ calls[2].disconnect = 0
    /\ prov[2].is_connected

\* the run of the claim's scenario: two providers of different names, both
\* connected; k >= 1 binary frames, then END, then the client closes; no vendor
\* event, no call that raised, no adapter holding an error, no exception out of
\* the handler
C6_Scenario ==
    /\ pc = "done"
    /\ escaped = "no"
    /\ Len(providers) = 2
    /\ providers[1] # providers[2]
    /\ \A k \in Inst : calls[k].load = "ok" /\ calls[k].raised = 0
                       /\ prov[k].vendor = 0 /\ prov[k].error = NoExc
    /\ \E k \in 1..MaxFrames :
          /\ Len(frames) = k + 2
          /\ \A i \in 1..k : frames[i] = "audio"
          /\ frames[k + 1] = "END"

\* C6: after that run each adapter's send() was invoked once per binary frame,
\* send_end() once, disconnect() once, and no forwarding task is running.
C6_CallCounts ==
    C6_Scenario =>
        /\ \A k \in Inst :
              /\ calls[k].send = Len(frames) - 2
              /\ calls[k].send_end = 1
              /\ calls[k].disconnect = 1
        /\ \A n \in Names : receive_tasks[n] # "running"

\* in that run the Google adapter was passed the frames and END, and teardown
\* did not invoke its disconnect(): its stream task had cleared the connected
\* flag when send_end() returned
C6_Witness ==
    /\ C6_Scenario
    /\ providers = <<"google", "soniox">>
    /\ calls[1].send = 1
    /\ calls[1].send_end = 1
    /\ calls[1].disconnect = 0
    /\ calls[2].disconnect = 1

-----------------------------------------------------------------------------
(* disconnect() and connect() called again.                                *)

\* the adapter state disconnect() is about: every field but the model's count
\* of calls into the vendor library
AdapterState(a) == [f \in (DOMAIN a) \ {"io"} |-> a[f]]

\* C11: disconnect() returns normally in every adapter state, and a second
\* disconnect() right after it also returns normally and leaves every field of
\* the adapter, its outbound queue included, as the first call left it.
C11_DisconnectIdempotent ==
    h.op = "disconnect" =>
        /\ h.exc = NoExc
        /\ \A c \in BOOLEAN :
              LET again == Disconnect(h.after, c) IN
              /\ again.exc = NoExc
              /\ AdapterState(again.a) = AdapterState(h.after)

\* SonioxProvider.disconnect() was called on a connected adapter, closing the
\* vendor websocket failed, and the exception left disconnect()
C11_Witness ==
    /\ h.op = "disconnect"
    /\ Adapter.kind = "soniox"
    /\ h.before.is_connected
    /\ h.before.websocket = "open"
    /\ h.exc = TransportError
    /\ ~h.after.is_connected

\* the loops of an adapter that run: its sender task and what takes the
\* vendor's results (the receiver task; for Google the one stream task does
\* both; for Azure the started recognizer calls back on its own thread)
SenderLoopRuns(a) == a.sender = "running"

ReceiverLoopRuns(a) ==
    CASE a.kind = "google" -> a.sender = "running"
      [] a.kind = "azure" -> a.websocket = "open" /\ a.loop_set
      [] OTHER -> a.receiver = "running"

\* C12: connect() on a connected adapter returns without raising and leaves
\* every field of the adapter as it was, the count of calls into the vendor
\* library included (no transport opened, nothing sent, no task created);
\* a connect() that succeeds on an adapter that was not connected finds no
\* sender or receiver task of that adapter running and leaves one of each
\* running.
C12_ConnectNoOp ==
    h.op = "connect" =>
        /\ h.before.is_connected => h.exc = NoExc /\ h.after = h.before
        /\ (~h.before.is_connected /\ h.exc = NoExc) =>
              /\ h.before.sender # "running"
              /\ h.before.receiver # "running"
              /\ h.after.is_connected
              /\ SenderLoopRuns(h.after)
              /\ ReceiverLoopRuns(h.after)

\* connect() was called on an adapter that a first connect() had connected and
\* that has an audio chunk waiting in its inbound queue
C12_Witness ==
    /\ h.op = "connect"
    /\ h.before.is_connected
    /\ h.n >= 2
    /\ h.before.websocket = "open"
    /\ h.before.client_queue # <<>>
    /\ h.after = h.before

-----------------------------------------------------------------------------
(* receive().                                                              *)

\* C13: receive() raises nothing in any adapter state; it returns what the
\* outbound queue held when it was called, oldest first, and leaves the queue
\* empty (the empty list when nothing was buffered); everything it returns is
\* a data or an error Message.
C13_ReceiveDrains ==
    h.op = "receive" =>
        LET got == receive(h.before) IN
        /\ h.exc = NoExc
        /\ h.after = got.a
        /\ h.after.host_queue = <<>>
        /\ got.items = h.before.host_queue
        /\ \A i \in 1..Len(got.items) : got.items[i].type \in {"data", "error"}

\* GoogleProvider.receive() was called with the None that the stream task's
\* finally clause or disconnect() put on the results queue, and returned it
C13_Witness ==
    /\ h.op = "receive"
    /\ Adapter.kind = "google"
    /\ h.exc = NoExc
    /\ \E i \in 1..Len(h.before.host_queue) : h.before.host_queue[i] = NoneMessage
    /\ h.after.host_queue = <<>>

-----------------------------------------------------------------------------
(* The inbound queue.                                                      *)

\* C14: in every reachable state the inbound queue of every adapter holds at
\* most 100 items.
C14_InboundQueueBounded ==
    \A k \in Inst : Len(prov[k].client_queue) <= QUEUE_MAXSIZE

\* every frame the client sent is buffered in the Google adapter's inbound
\* queue, two more than the capacity the other adapters give theirs
C14_Witness ==
    /\ prov[1].kind = "google"
    /\ Len(frames) = QUEUE_MAXSIZE + 2
    /\ Len(prov[1].client_queue) = QUEUE_MAXSIZE + 2
    /\ \A i \in 1..Len(prov[1].client_queue) : prov[1].client_queue[i].k = "audio"

-----------------------------------------------------------------------------
(* What ends a session.                                                    *)

\* C15: compare_websocket leaves its main loop only once the client is gone,
\* and no failure of a provider during teardown leaves the handler as an
\* exception.  (An exception from the loading loop or the fan-out is let
\* through here: it is the write to a client that closed in the meantime.)
C15_OnlyClientEndsSession ==
    /\ pc \in {"finally", "cleanup", "done"} => ~clientOpen
    /\ escaped \in {"load", "fanout"} => ~clientOpen
    /\ escaped # "cleanup"

\* a session of one provider: the client disconnected in the ordinary way, the
\* adapter's disconnect() raised in teardown, no error Message reached the
\* client and the exception left the handler
C15_Witness ==
    /\ pc = "done"
    /\ escaped = "cleanup"
    /\ Len(providers) = 1
    /\ frames # <<>>
    /\ frames[Len(frames)] = "disconnect"
    /\ calls[1].disconnect = 1
    /\ clientLog[providers[1]] = <<>>

-----------------------------------------------------------------------------
(* A forwarding task that fails.                                           *)

\* the error Messages the client got under name from the except clause of
\* forward_to_client
ReceiveErrors(name) ==
    SelectSeq(clientLog[name],
              LAMBDA m : m = error_message(name, "Receive error: " \o EncodeError.msg))

\* C16: while the client is connected and compare_websocket is in its main
\* loop, a forwarding task has stopped exactly when the client got one error
\* Message of that task tagged with its provider, never more than one; so a
\* task stops for its own failure only, the other tasks that were started are
\* still running, none is cancelled, and the handler still reads and fans out
\* frames.
C16_ForwardFailureIsolation ==
    \A n \in Names :
       /\ Len(ReceiveErrors(n)) <= 1
       /\ (clientOpen /\ receive_tasks[n] = "done") =>
             /\ Len(ReceiveErrors(n)) = 1
             /\ batch[n] = <<>>
             /\ pc \in {"read", "fanout"}
       /\ (clientOpen /\ pc \in {"read", "fanout"}) =>
             /\ receive_tasks[n] \in {"none", "running", "writing", "done"}
             /\ receive_tasks[n] # "done" => ReceiveErrors(n) = <<>>

\* the first provider's forwarding task failed on its first message and
\* stopped with one error Message; after that Soniox's task wrote a data
\* Message and compare_websocket read an audio frame
C16_Witness ==
    /\ clientOpen
    /\ Len(providers) = 2
    /\ providers[1] # "soniox"
    /\ receive_tasks[providers[1]] = "done"
    /\ Len(clientLog[providers[1]]) = 1
    /\ Len(ReceiveErrors(providers[1])) = 1
    /\ receive_tasks["soniox"] = "running"
    /\ DataOf("soniox") # <<>>
    /\ frames = <<"audio">>
    /\ pc = "read"

-----------------------------------------------------------------------------
(* Writes to the client connection.                                        *)

\* the forwarding tasks that have called websocket.send_json and have not
\* returned from it
Writers == {n \in Names : receive_tasks[n] = "writing"}

\* C17: at any time at most one write to the client connection is in
\* progress: no forwarding task calls send_json while another task's send_json
\* has not returned.
C17_WritesExclusive == Cardinality(Writers) <= 1

\* the forwarding tasks of both providers are inside send_json at once
C17_Witness ==
    /\ clientOpen
    /\ Len(providers) = 2
    /\ Writers = {providers[1], providers[2]}
    /\ batch[providers[1]] # <<>>
    /\ batch[providers[2]] # <<>>

-----------------------------------------------------------------------------
(* What a Message written to the client carries.                           *)

\* C18: every Message the client got under a provider's identifier has that
\* identifier in its provider field, and the text of every error Message is
\* the text of an error: it is not empty and it is not a provider identifier.
C18_MessagesTagged ==
    \A n \in Names : \A i \in 1..Len(clientLog[n]) :
        LET m == clientLog[n][i] IN
        /\ m.provider = n
        /\ m.type \in {"data", "error"}
        /\ m.type = "error" => m.text # "" /\ m.text \notin Names

\* a response of Google's stream carried an error; the Message built by
\* GoogleProvider._handle_error reached the client stamped with the provider,
\* its text being the word "google"
C18_Witness ==
    /\ providers = <<"google">>
    /\ prov[1].error = ProviderError("Google API Error in response message")
    /\ clientLog["google"] = <<error_message("google", "google")>>

-----------------------------------------------------------------------------
(* The session's ProviderParams.                                           *)

\* the params an adapter of this kind can hold when it is built from a copy of
\* p and only its own constructor and connect() rewrite that copy
OwnParams(kind, p) ==
    LET cr == Construct(kind, p) IN
    {cr.a.params} \cup {Connect(cr.a, o).a.params : o \in ConnectOutcomes}

\* C19: no step changes the session's ProviderParams, and after every step
\* each adapter holds params that follow from the session's value and its own
\* rewrite alone, whatever the other adapter of the session rewrote and in
\* whichever order the two were loaded.
C19_ParamsIsolation ==
    [][/\ provider_params' = provider_params
       /\ \A k \in Inst :
             prov'[k].kind # "none" =>
                prov'[k].params \in OwnParams(prov'[k].kind, provider_params)]_vars

\* Google was loaded first and rewrote its language hints to Google's codes;
\* Soniox, loaded after it, holds the hints the session was opened with
C19_Witness ==
    /\ providers = <<"google", "soniox">>
    /\ pc = "read"
    /\ provider_params.language_hints = <<"en">>
    /\ prov[1].params.language_hints = <<VendorCode("en")>>
    /\ prov[2].params = provider_params
    /\ prov[2].is_connected

-----------------------------------------------------------------------------
(* No retry.                                                               *)

-----------------------------------------------------------------------------
(* Dispatch of the client's frames.                                        *)

\* C21: a step that reads a frame ends the main loop unless the frame is a
\* bytes frame or the text frame END; send() is only called while a bytes
\* frame is fanned out and send_end() only while END is; and the fan-out
\* calls send_end() and not send() for END, send() otherwise, on the connected
\* adapter it is at.
C21_FrameDispatch ==
    [][/\ frames' # frames =>
            LET f == frames'[Len(frames')] IN
            IF f \in {"audio", "END"}
            THEN pc' \in {"fanout", "read"} /\ frame' = f
            ELSE pc' = "finally"
       /\ \A k \in Inst :
            /\ calls'[k].send > calls[k].send => frame = "audio"
            /\ calls'[k].send_end > calls[k].send_end => frame = "END"
       /\ (/\ pc = "fanout"
           /\ idx <= Len(active_providers)
           /\ prov[active_providers[idx][2]].is_connected
           /\ calls' # calls) =>
            LET k == active_providers[idx][2] IN
            IF frame = "END"
            THEN /\ calls'[k].send_end = calls[k].send_end + 1
                 /\ calls'[k].send = calls[k].send
            ELSE /\ calls'[k].send = calls[k].send + 1
                 /\ calls'[k].send_end = calls[k].send_end]_vars

\* the client sent a text frame other than END, and the main loop passed it
\* to the adapter's send() and went on to read the next frame
C21_Witness ==
    /\ frames = <<"text">>
    /\ pc = "read"
    /\ calls[1].load = "ok"
    /\ calls[1].send = 1
    /\ calls[1].send_end = 0

-----------------------------------------------------------------------------
(* The phases of a session.                                                *)

\* the phase compare_websocket is in at position p: 0 Initializing (the
\* loading loop), 1 Active (main loop), 2 Draining (finally block), 3 Closed
Phase(p) ==
    CASE p = "load" -> 0
      [] p \in {"read", "fanout", "blocked"} -> 1
      [] p \in {"finally", "cleanup"} -> 2
      [] OTHER -> 3

\* C22: no step takes the session to an earlier phase; connect() is only
\* called while the session is Initializing, and in that phase no forwarding
\* task exists and no frame has been read; from the Draining phase on no
\* adapter gets a connect(), send() or send_end() and no forwarding task is
\* started.
C22_PhasesForward ==
    [][/\ Phase(pc') >= Phase(pc)
       /\ Phase(pc) = 0 =>
            /\ frames = <<>>
            /\ \A n \in Names : receive_tasks[n] = "none"
       /\ \A k \in Inst : calls'[k].connect # calls[k].connect => Phase(pc) = 0
       /\ Phase(pc) >= 2 =>
            /\ \A k \in Inst :
                 /\ calls'[k].connect = calls[k].connect
                 /\ calls'[k].send = calls[k].send
                 /\ calls'[k].send_end = calls[k].send_end
            /\ \A n \in Names :
                 receive_tasks'[n] \in {"running", "writing"} =>
                    receive_tasks[n] \in {"running", "writing"}]_vars

\* a session that went through all four phases: two adapters connected, a
\* frame was fanned out to both, the client left, the forwarding tasks were
\* cancelled and both adapters disconnected
C22_Witness ==
    /\ pc = "done"
    /\ escaped = "no"
    /\ Len(providers) = 2
    /\ frames = <<"audio", "disconnect">>
    /\ \A k \in Inst : /\ calls[k].connect = 1
                       /\ calls[k].send = 1
                       /\ calls[k].disconnect = 1
    /\ receive_tasks["soniox"] = "cancelled"

-----------------------------------------------------------------------------
(* The capability rules in connect().                                      *)

\* the capability rules the params p break for the matrix of adapter kind
BrokenRules(kind, p) ==
    LET f == get_available_features(kind) IN
    {r \in 1..5 :
        CASE r = 1 -> p.mode = "mt" /\ f.translation_one_way = "UNSUPPORTED"
          [] r = 2 -> p.mode = "mt" /\ p.ttype = "two_way"
                      /\ f.translation_two_way # "SUPPORTED"
          [] r = 3 -> p.enable_speaker_diarization
                      /\ f.speaker_diarization = "UNSUPPORTED"
          [] r = 4 -> p.enable_language_identification
                      /\ f.language_identification = "UNSUPPORTED"
          [] r = 5 -> p.enable_endpoint_detection
                      /\ f.endpoint_detection = "UNSUPPORTED"}

\* C23: connect() on an adapter that is not connected, with params that break
\* any of the five rules for its matrix, raises a ProviderError and leaves the
\* adapter unconnected; when the two-way translation rule is the broken one,
\* the vendor's transport has not been touched either.
C23_AllRulesEnforced ==
    (h.op = "connect" /\ ~h.before.is_connected) =>
        LET broken == BrokenRules(h.before.kind, h.before.params) IN
        /\ broken # {} =>
              /\ h.exc.cls = "ProviderError"
              /\ ~h.after.is_connected
        /\ 2 \in broken =>
              /\ h.after.io = h.before.io
              /\ h.after.websocket = "none"

\* AzureProvider.connect() returned normally for a two-way translation
\* request, the only broken rule being the two-way one: the recognizer is
\* started and the language codes are rewritten for a one-way translation
C23_Witness ==
    /\ h.op = "connect"
    /\ h.before.kind = "azure"
    /\ ~h.before.is_connected
    /\ BrokenRules("azure", h.before.params) = {2}
    /\ h.exc = NoExc
    /\ h.after.websocket = "open"
    /\ h.after.loop_set
    /\ h.after.params.target_language = VendorCode("en")

-----------------------------------------------------------------------------
(* Messages on their way to the client.                                    *)

\* C24: a data Message the client received holds the parts it held when the
\* adapter put it on its outbound queue.
C24_MessagesImmutable ==
    \A k \in Inst : \A e \in prov[k].enqueued :
        \A i \in 1..Len(clientLog[prov[k].kind]) :
            LET m == clientLog[prov[k].kind][i] IN
            (m.type = "data" /\ m.id = e[1]) => m.text = e[2]

\* the client received OpenAI's first delta Message with the parts of two
\* tokens, while it held one when it was put on the queue: the second delta
\* event was handled before the forwarding task called receive(), which
\* returned both Messages
C24_Witness ==
    /\ prov[1].kind = "openai"
    /\ <<1, PartsText(1)>> \in prov[1].enqueued
    /\ Len(clientLog["openai"]) = 1
    /\ clientLog["openai"][1].id = 1
    /\ clientLog["openai"][1].text = PartsText(2)
    /\ Len(batch["openai"]) = 1
    /\ batch["openai"][1].id = 2

-----------------------------------------------------------------------------
(* The callbacks of the Azure SDK.                                         *)

\* C25: a step made by a callback on the SDK's thread leaves the outbound
\* queue, the stored error and the connected flag of every adapter as they
\* were.
C25_CallbacksHandOff ==
    [][Az_callback =>
          \A k \in Inst :
             /\ prov'[k].host_queue = prov[k].host_queue
             /\ prov'[k].error = prov[k].error
             /\ prov'[k].is_connected = prov[k].is_connected]_vars

\* the stored error of a connected Azure adapter is the exception a callback
\* ran into: nothing was handed off, the outbound queue is empty and the
\* adapter is still connected
C25_Witness ==
    /\ Adapter.kind = "azure"
    /\ Adapter.is_connected
    /\ Adapter.error = JSONDecodeError
    /\ Adapter.handoff = <<>>
    /\ Adapter.host_queue = <<>>
    /\ h.op = "connect"

-----------------------------------------------------------------------------
(* Waits for the vendor.                                                   *)

\* the error Messages on queue q
ErrorsOn(q) == {i \in 1..Len(q) : q[i].type = "error"}

\* C26: Google's send_end() and Azure's disconnect() return, and return
\* normally, also when the stream task had to be cancelled after the timeout
\* or the stop was not acknowledged in time; in that case the operation puts no
\* error Message on the outbound queue and leaves the adapter disconnected.
C26_BoundedWaits ==
    /\ (h.op = "send_end" /\ h.before.kind = "google") =>
          /\ h.exc = NoExc
          /\ h.after.sender # "running"
          /\ h.after.sender = "cancelled" =>
                /\ ~h.after.is_connected
                /\ Cardinality(ErrorsOn(h.after.host_queue))
                     = Cardinality(ErrorsOn(h.before.host_queue))
    /\ (h.op = "disconnect" /\ h.before.kind = "azure") =>
          /\ h.exc = NoExc
          /\ ~h.after.is_connected
          /\ h.after.host_queue = h.before.host_queue

\* Azure's disconnect() returned normally although the recognizer did not
\* acknowledge the stop within the timeout
C26_Witness ==
    /\ h.op = "disconnect"
    /\ h.before.kind = "azure"
    /\ h.before.is_connected
    /\ h.before.websocket = "open"
    /\ h.after.websocket = "open"
    /\ h.after.error = Exc("TimeoutError", "")
    /\ h.exc = NoExc
    /\ h.after.io = h.before.io + 1
-----------------------------------------------------------------------------
(* Waiting instead of polling.                                             *)

\* C27: a forwarding task that is alive takes a step (it goes through an
\* iteration of its loop, or takes or writes a Message) only in a state in
\* which a Message is there for it: on the outbound queue of its adapter or in
\* the list receive() returned.
C27_NoPolling ==
    [][\A n \in Names :
          (/\ receive_tasks[n] \in {"running", "sleeping"}
           /\ receive_tasks'[n] \in {"running", "sleeping"}
           /\ receive_tasks'[n] # receive_tasks[n] \/ batch'[n] # batch[n]) =>
             \/ batch[n] # <<>>
             \/ prov[InstOf(n)].host_queue # <<>>]_vars

\* the forwarding task of an adapter that has disconnected itself, and whose
\* outbound queue has been emptied and written to the client, went through
\* another iteration of its loop
C27_Witness ==
    /\ Len(providers) = 1
    /\ calls[1].load = "ok"
    /\ ~prov[1].is_connected
    /\ prov[1].host_queue = <<>>
    /\ batch[providers[1]] = <<>>
    /\ Len(clientLog[providers[1]]) = 1
    /\ receive_tasks[providers[1]] = "sleeping"
    /\ pc = "read"

-----------------------------------------------------------------------------
(* The order of audio and end-of-audio at the vendor.                      *)

\* what the adapters write to the vendor as the end of the audio: Soniox's
\* empty frame, Deepgram's, AssemblyAI's and OpenAI's control message,
\* Speechmatics' EndOfStream
EndMarks == {"", "end", "EndOfStream"}

\* the end of the audio has reached the vendor of adapter a: an end mark was
\* written, Azure's sender closed the push stream, Google's request stream
\* was stopped
EndReached(a) ==
    \/ \E i \in 1..Len(a.wire) : a.wire[i] \in EndMarks
    \/ a.kind = "azure" /\ a.sender = "done"
    \/ a.kind = "google" /\ a.stop_event

\* the client sent nothing but END after its first END
EndIsLast ==
    \A i \in 1..Len(frames) : \A j \in (i + 1)..Len(frames) :
        frames[i] = "END" => frames[j] \in {"END", "disconnect"}

\* C28: in a session whose client sends no audio after END, no audio chunk is
\* written to a vendor after the end mark, and once the end of the audio has
\* reached the vendor no audio chunk is left on the adapter's inbound queue.
C28_EndAfterAudio ==
    EndIsLast =>
        \A k \in Inst :
            LET a == prov[k] IN
            /\ \A i \in 1..Len(a.wire) : \A j \in (i + 1)..Len(a.wire) :
                  a.wire[i] \in EndMarks => a.wire[j] # "audio"
            /\ (calls[k].send_end >= 1 /\ EndReached(a)) =>
                  \A i \in 1..Len(a.client_queue) : a.client_queue[i].k # "audio"

\* AssemblyAI got the Terminate message before the audio chunk the client had
\* sent ahead of END: send_end() wrote to the socket while the chunk was still
\* on the inbound queue
C28_Witness ==
    /\ providers = <<"assembly">>
    /\ frames = <<"audio", "END">>
    /\ calls[1].send = 1
    /\ calls[1].send_end = 1
    /\ prov[1].wire = <<"end", "audio">>

-----------------------------------------------------------------------------
(* disconnect() called by an adapter's own loop.                           *)

\* C29: a step of a sender or receiver loop that disconnects its adapter
\* leaves the vendor transport closed and neither loop running.
C29_SelfDisconnectCloses ==
    [][(A_send_loop \/ A_recv_loop) =>
          \A k \in Inst :
             (prov[k].is_connected /\ ~prov'[k].is_connected) =>
                /\ prov'[k].websocket # "open"
                /\ prov'[k].sender # "running"
                /\ prov'[k].receiver # "running"]_vars

\* a session has ended with the transport of its adapter still open: the
\* adapter had disconnected itself in its receiver loop, the close was cut
\* short by the cancellation of that very task, and the clean-up passed over
\* the adapter because it was not connected any more
C29_Witness ==
    /\ pc = "done"
    /\ escaped = "no"
    /\ providers = <<"soniox">>
    /\ calls[1].load = "ok"
    /\ calls[1].disconnect = 0
    /\ calls[1].raised = 0
    /\ ~prov[1].is_connected
    /\ prov[1].websocket = "open"
    /\ prov[1].sender = "cancelled"
    /\ prov[1].receiver = "cancelled"

-----------------------------------------------------------------------------
(* Transports of adapters whose connect() failed.                          *)

\* C30: when the session's teardown is over, no adapter whose connect()
\* failed holds an open vendor transport.
C30_NoTransportLeak ==
    pc = "done" =>
        \A k \in Inst :
            (calls[k].connect = 1 /\ calls[k].load = "failed") =>
                prov[k].websocket # "open"

\* the teardown of a session is over and the socket SonioxProvider.connect()
\* had opened before its initialisation message could not be sent is still
\* open; disconnect() was never called on the adapter
C30_Witness ==
    /\ pc = "done"
    /\ escaped = "no"
    /\ providers = <<"soniox">>
    /\ calls[1].connect = 1
    /\ calls[1].load = "failed"
    /\ calls[1].disconnect = 0
    /\ prov[1].websocket = "open"
    /\ prov[1].sender = "none"
    /\ ErrorsWith("soniox", TransportError.msg) # {}

-----------------------------------------------------------------------------
(* Teardown of every adapter that connected.                               *)

\* C31: when the session's teardown is over, every adapter object whose
\* connect() succeeded and which is still connected has had disconnect()
\* called on it, whatever the list of requested names, a list naming one
\* provider twice included.
C31_EveryConnectedDisconnected ==
    pc = "done" =>
        \A k \in Inst :
            (calls[k].load = "ok" /\ prov[k].is_connected) =>
                calls[k].disconnect >= 1

\* providers=soniox,soniox: both adapter objects connected, the dict keeps the
\* second under the name; the teardown, which no exception cut short,
\* disconnected the second and never called disconnect() on the first, which
\* is still connected with its loops running
C31_Witness ==
    /\ pc = "done"
    /\ escaped = "no"
    /\ providers = <<"soniox", "soniox">>
    /\ active_providers = <<<<"soniox", 2>>>>
    /\ calls[1].load = "ok" /\ calls[2].load = "ok"
    /\ calls[2].disconnect = 1
    /\ ~prov[2].is_connected
    /\ calls[1].disconnect = 0
    /\ prov[1].is_connected
    /\ prov[1].sender = "running" /\ prov[1].receiver = "running"

\* the same statement for the sessions whose names differ and whose teardown
\* no exception cut short
C31_DistinctNames ==
    (pc = "done" /\ escaped = "no"
        /\ \A i, j \in 1..Len(providers) : providers[i] = providers[j] => i = j) =>
        \A k \in Inst :
            (calls[k].load = "ok" /\ prov[k].is_connected) =>
                calls[k].disconnect >= 1

-----------------------------------------------------------------------------
(* The main loop is not held up by one adapter.                            *)

\* the adapter the fan-out is calling
Callee == prov[active_providers[idx][2]]

\* C32: the main loop is never suspended in a send() or send_end() of an
\* adapter with nothing left that could end the wait: a call that waits for
\* room in the inbound queue waits while the sender loop that takes items off
\* that queue still runs.
C32_MainLoopNotHeldUp ==
    pc = "blocked" => SenderEnabled(Callee)

\* the client sent END, 100 audio frames and END again: Azure's sender loop
\* ended on the first END, the 100 chunks fill the inbound queue, and the
\* second send_end() is suspended in client_queue.put() for good; the adapter
\* still reports connected
C32_Witness ==
    /\ pc = "blocked"
    /\ providers = <<"azure">>
    /\ Len(frames) = QUEUE_MAXSIZE + 2
    /\ frames[1] = "END" /\ frames[QUEUE_MAXSIZE + 2] = "END"
    /\ Callee.sender = "done"
    /\ Callee.is_connected
    /\ Len(Callee.client_queue) = QUEUE_MAXSIZE
    /\ calls[1].send_end = 2
    /\ calls[1].raised = 0

-----------------------------------------------------------------------------
(* The end-of-audio marker and a full inbound queue.                       *)

\* the overflow error as the fan-out reports it
OverflowReport == "Error while sending message to provider: Queue full: disconnecting."

\* C33: a send_end() the fan-out calls on an adapter whose inbound queue is
\* full does not leave the adapter connected with the marker dropped: the
\* marker is put on the queue (at once, or by waiting for room), or the
\* adapter is disconnected.  (An adapter that writes its marker to the vendor
\* itself, past the queue, has not dropped it to the queue's policy.)
C33_EndMarkerFailClosed ==
    [][(pc = "fanout" /\ frame = "END" /\ calls' # calls /\ QueueIsFull(Callee)) =>
          LET k == active_providers[idx][2] IN
          \/ Len(prov'[k].client_queue) > Len(prov[k].client_queue)
          \/ pc' = "blocked"
          \/ prov'[k].io > prov[k].io
          \/ ~prov'[k].is_connected]_vars

\* the same statement for the adapters other than Deepgram and Speechmatics
C33_OtherAdapters ==
    [][(pc = "fanout" /\ frame = "END" /\ calls' # calls /\ QueueIsFull(Callee)
           /\ Callee.kind \notin {"deepgram", "speechmatics"}) =>
          LET k == active_providers[idx][2] IN
          \/ Len(prov'[k].client_queue) > Len(prov[k].client_queue)
          \/ pc' = "blocked"
          \/ prov'[k].io > prov[k].io
          \/ ~prov'[k].is_connected]_vars

\* Deepgram's send_end() was called with 100 chunks queued: put_nowait raised
\* QueueFull, which the fan-out reported with its empty text; the queue holds
\* the 100 chunks and no marker, and the adapter is still connected with its
\* loops running
C33_Witness ==
    /\ pc = "read"
    /\ providers = <<"deepgram">>
    /\ frames # <<>>
    /\ frames[Len(frames)] = "END"
    /\ calls[1].send_end >= 1
    /\ calls[1].raised = 1
    /\ prov[1].is_connected
    /\ prov[1].sender = "running"
    /\ Len(prov[1].client_queue) = QUEUE_MAXSIZE
    /\ \A i \in 1..QUEUE_MAXSIZE : prov[1].client_queue[i].k = "audio"
    /\ ErrorsWith("deepgram", "Error while sending message to provider: ") # {}
    /\ ErrorsWith("deepgram", OverflowReport) = {}

-----------------------------------------------------------------------------
(* Errors of an adapter's loops reach the client.                          *)

\* the texts of the error Messages the adapters' loops put on their outbound
\* queues
LoopErrorTexts ==
    {TransportError.msg, "Sender error: " \o TransportError.msg,
     "Receiver error: " \o TransportError.msg, "vendor error",
     "a bytes-like object is required", "google",
     "Google streaming error: " \o TransportError.msg, "Recognition canceled"}

\* the session is open: the client is there and the handler has not reached
\* its finally block
SessionOpen == clientOpen /\ pc \in {"load", "read", "fanout"}

\* an error Message with text t waits on the outbound queue of the adapter of
\* provider n, which has a forwarding task, or in the batch that task took
ErrorPending(n, t) ==
    /\ receive_tasks[n] # "none"
    /\ \/ \E i \in 1..Len(prov[1].host_queue) :
             /\ prov[1].host_queue[i].type = "error"
             /\ prov[1].host_queue[i].text = t
       \/ \E i \in 1..Len(batch[n]) :
             batch[n][i].type = "error" /\ batch[n][i].text = t

\* the errors of the loops of the session's adapter that wait to be written
\* and have not been written to the client
Missing ==
    {t \in LoopErrorTexts :
        \E n \in Kinds :
            providers = <<n>> /\ ErrorPending(n, t) /\ ErrorsWith(n, t) = {}}

\* C34: an error Message an adapter's loop put on its outbound queue is
\* eventually written to the client under the provider's name, unless the
\* session stops being open; the adapter being disconnected does not matter.
C34_LoopErrorsReachClient ==
    (Missing # {}) ~> (Missing = {} \/ ~SessionOpen)

\* Deepgram's receiver loop failed and disconnected the adapter; the session
\* is still open and the forwarding task, still running, has written the
\* loop's error Message to the client
C34_Witness ==
    /\ SessionOpen
    /\ providers = <<"deepgram">>
    /\ ~prov[1].is_connected
    /\ prov[1].receiver = "cancelled"
    /\ prov[1].error = TransportError
    /\ receive_tasks["deepgram"] = "running"
    /\ prov[1].host_queue = <<>>
    /\ batch["deepgram"] = <<>>
    /\ ErrorsWith("deepgram", "Receiver error: " \o TransportError.msg) # {}

-----------------------------------------------------------------------------
(* The connected flag and the adapter's loops.                             *)

\* C35: an adapter reports is_connected() true only while its loops still
\* run: its sender loop and its receiver loop (Google: its one stream task;
\* Azure: its sender loop and the recognizer that calls back).
C35_ConnectedWhileLoopsRun ==
    \A k \in Inst :
        prov[k].is_connected =>
            SenderLoopRuns(prov[k]) /\ ReceiverLoopRuns(prov[k])

\* Soniox closed the stream in the ordinary way: the iteration over the
\* websocket ended and _recv_loop returned without touching _is_connected;
\* no error was raised or queued, the sender loop still runs, and the adapter
\* reports connected in an open session
C35_Witness ==
    /\ pc = "read"
    /\ clientOpen
    /\ providers = <<"soniox">>
    /\ prov[1].is_connected
    /\ prov[1].receiver = "done"
    /\ prov[1].sender = "running"
    /\ prov[1].websocket = "open"
    /\ prov[1].error = NoExc
    /\ prov[1].host_queue = <<>>
    /\ clientLog["soniox"] = <<>>

-----------------------------------------------------------------------------
(* The sequence number of Speechmatics' EndOfStream.                       *)

\* the audio chunks among the messages w written to the vendor
AudioWritten(w) == Cardinality({i \in 1..Len(w) : w[i] = "audio"})

\* C36: whenever Speechmatics' sender loop writes an EndOfStream message to
\* the vendor, its last_seq_no is the number of audio chunks written to the
\* vendor before it.
C36_LastSeqNo ==
    [][\A k \in Inst :
          (/\ prov[k].kind = "speechmatics"
           /\ Len(prov'[k].wire) = Len(prov[k].wire) + 1
           /\ prov'[k].wire[Len(prov'[k].wire)] = "EndOfStream") =>
              prov'[k].last_seq_no = AudioWritten(prov[k].wire)]_vars

\* the client sent one audio frame and END before the sender loop ran:
\* send_end() read _num_sent_chunks while the chunk was still queued, so the
\* EndOfStream written after the chunk carries last_seq_no 0
C36_Witness ==
    /\ providers = <<"speechmatics">>
    /\ frames = <<"audio", "END">>
    /\ prov[1].wire = <<"init", "audio", "EndOfStream">>
    /\ prov[1].last_seq_no = 0
    /\ prov[1].num_sent_chunks = 2
    /\ prov[1].is_connected
    /\ calls[1].raised = 0

====
